---- MODULE Spec2Model ----
(***************************************************************************)
(* VideoF2B: a state-machine model of videof2b.core.flight.Flight          *)
(* (construction, locator point list and its signals), of the              *)
(* serialization scenario of tests/test_serialization.py, of the curve     *)
(* generators and drawing routines of Drawing.py, and of the figure panel  *)
(* and the worker-thread lifecycle of videof2b.ui.main_window.MainWindow.  *)
(***************************************************************************)
EXTENDS Integers, Sequences, FiniteSets, TLC

\* ------------------------------------------------------------------------
\* Bounds of the model
\* ------------------------------------------------------------------------
\* Pixel coordinates of a clicked point range over 0..MaxCoord.
MaxCoord == 1
\* Longest locator list handed to the constructor through kwargs['loc_pts'].
MaxCtorPts == 5
\* Radii passed to the curve generators range over -MaxRadius..MaxRadius.
MaxRadius == 3
\* Segment counts passed to the curve generators range over 0..MaxSeg.
MaxSeg == 4
\* Longest track handed to draw_track; maxlen ranges over 1..MaxTrackLen+1.
MaxTrackLen == 5

Points == (0 .. MaxCoord) \X (0 .. MaxCoord)

\* An optional value is a sequence of at most one element: None (also a
\* keyword argument that the caller did not pass) is the empty one.
None == <<>>

Some(v) == <<v>>

VARIABLES
    loc_pts,    \* Flight.loc_pts of the flight being located
    prev_pts,   \* value of loc_pts when the last locator call was entered
    op,         \* name of the last method called
    emitted,    \* signals emitted by the last call, in emission order
    err,        \* exception raised by the last call, or NoError
    pc,         \* position in the construct / write / read scenario
    args,       \* arguments of Flight(...)
    f1,         \* the constructed Flight, or None
    f2,         \* the Flight returned by Flight.read, or None
    dargs,      \* arguments of the last Drawing.py call
    dout,       \* what the last Drawing.py call returned or drew
    is_window_closing,  \* MainWindow._is_window_closing
    proc,       \* MainWindow._proc: the worker it refers to, or None
    proc_thread,        \* MainWindow._proc_thread: the thread it refers to, or None
    calibrator, \* MainWindow._calibrator: the worker it refers to, or None
    workers,    \* the workers created so far, each with its thread
    queue,      \* slot calls posted to the UI thread, oldest first
    modal,      \* open modal dialogs of the UI thread, innermost last
    closed,     \* the main window has accepted a close event
    saved,      \* number of save_settings() calls
    act_enabled,        \* enabled state of the actions
    connections,        \* number of connections of the UI-thread signals
    checked,    \* checked state of fig_chk_boxes
    fig_enabled,        \* enabled state of the figure checkboxes
    last_flight,        \* MainWindow._last_flight: a flight was loaded
    is_mouse_enabled,   \* MainWindow.video_window.is_mouse_enabled
    inbox,      \* slot calls posted to the worker thread, oldest first
    audio       \* the AudioProcessor and the thread running it

NoError == [type |-> "none", msg |-> ""]

locvars == <<loc_pts, prev_pts, op, emitted>>
locdata == <<loc_pts, prev_pts, emitted>>
flightvars == <<pc, args, f1, f2>>
drawvars == <<dargs, dout>>
winvars == <<is_window_closing, proc, proc_thread, calibrator, workers, queue,
             modal, closed, saved, act_enabled, connections, checked,
             fig_enabled, last_flight, is_mouse_enabled, inbox, audio>>
vars == <<loc_pts, prev_pts, op, emitted, err, pc, args, f1, f2, dargs, dout,
          is_window_closing, proc, proc_thread, calibrator, workers, queue,
          modal, closed, saved, act_enabled, connections, checked,
          fig_enabled, last_flight, is_mouse_enabled, inbox, audio>>

\* No main window and no audio processor exist.
NoWindow ==
    /\ is_window_closing = FALSE
    /\ proc = None
    /\ proc_thread = None
    /\ calibrator = None
    /\ workers = <<>>
    /\ queue = <<>>
    /\ modal = <<>>
    /\ closed = FALSE
    /\ saved = 0
    /\ act_enabled = <<>>
    /\ connections = <<>>
    /\ checked = <<>>
    /\ fig_enabled = FALSE
    /\ last_flight = FALSE
    /\ is_mouse_enabled = FALSE
    /\ inbox = <<>>
    /\ audio = <<>>

\* ------------------------------------------------------------------------
\* Flight: the locator point list
\* ------------------------------------------------------------------------
obj_point_names == <<"circle center", "front marker", "left marker", "right marker">>

num_obj_pts == Len(obj_point_names)

locator_points_defined == [sig |-> "locator_points_defined"]

\* Variant of on_locator_points_changed whose instruction index is one short.
on_locator_points_changed_off_by_one(pts) ==
    LET idx == IF Len(pts) > 0 THEN Len(pts) - 1 ELSE 0
        msg == IF idx < Len(obj_point_names)
               THEN "Click " \o obj_point_names[idx + 1] \o "."
               ELSE "All points defined."
    IN  [sig |-> "locator_points_changed", pts |-> pts, msg |-> msg]

\* Flight.on_locator_points_changed: the emitted signal.
\* Python indexes obj_point_names from 0, TLA+ from 1.
on_locator_points_changed(pts) ==
    LET idx == Len(pts)
        msg == IF idx < Len(obj_point_names)
               THEN "Click " \o obj_point_names[idx + 1] \o "."
               ELSE "All points defined."
    IN  [sig |-> "locator_points_changed", pts |-> pts, msg |-> msg]

\* Variant of add_locator_point without the length guard.
add_locator_point_unguarded(pts, point) ==
    LET pts1 == Append(pts, point)
        ev1 == <<on_locator_points_changed(pts1)>>
        ev2 == IF Len(pts1) = num_obj_pts THEN <<locator_points_defined>> ELSE <<>>
    IN  [loc_pts |-> pts1, emitted |-> ev1 \o ev2]

\* Variant of add_locator_point that emits locator_points_defined first.
add_locator_point_defined_first(pts, point) ==
    LET grows == Len(pts) < num_obj_pts
        pts1 == IF grows THEN Append(pts, point) ELSE pts
        ev1 == IF grows THEN <<on_locator_points_changed(pts1)>> ELSE <<>>
        ev2 == IF Len(pts1) = num_obj_pts THEN <<locator_points_defined>> ELSE <<>>
    IN  [loc_pts |-> pts1, emitted |-> ev2 \o ev1]

\* Variant of add_locator_point that overwrites the last point of a full list.
add_locator_point_overwrite(pts, point) ==
    LET grows == Len(pts) < num_obj_pts
        pts1 == IF grows THEN Append(pts, point)
                ELSE Append(SubSeq(pts, 1, Len(pts) - 1), point)
        ev1 == IF grows THEN <<on_locator_points_changed(pts1)>> ELSE <<>>
        ev2 == IF Len(pts1) = num_obj_pts THEN <<locator_points_defined>> ELSE <<>>
    IN  [loc_pts |-> pts1, emitted |-> ev1 \o ev2]

\* Flight.add_locator_point: the new list and the signals emitted.
add_locator_point(pts, point) ==
    LET grows == Len(pts) < num_obj_pts
        pts1 == IF grows THEN Append(pts, point) ELSE pts
        ev1 == IF grows THEN <<on_locator_points_changed(pts1)>> ELSE <<>>
        ev2 == IF Len(pts1) = num_obj_pts THEN <<locator_points_defined>> ELSE <<>>
    IN  [loc_pts |-> pts1, emitted |-> ev1 \o ev2]

\* Variant of pop_locator_point that removes the first point (pop(0)).
pop_locator_point_first(pts) ==
    IF pts # <<>>
    THEN LET pts1 == SubSeq(pts, 2, Len(pts))
         IN  [loc_pts |-> pts1, emitted |-> <<on_locator_points_changed(pts1)>>]
    ELSE [loc_pts |-> pts, emitted |-> <<>>]

\* Flight.pop_locator_point
pop_locator_point(pts) ==
    IF pts # <<>>
    THEN LET pts1 == SubSeq(pts, 1, Len(pts) - 1)
         IN  [loc_pts |-> pts1, emitted |-> <<on_locator_points_changed(pts1)>>]
    ELSE [loc_pts |-> pts, emitted |-> <<>>]

\* Variant of clear_locator_points that is silent on an empty list.
clear_locator_points_guarded(pts) ==
    IF pts # <<>>
    THEN [loc_pts |-> <<>>, emitted |-> <<on_locator_points_changed(<<>>)>>]
    ELSE [loc_pts |-> pts, emitted |-> <<>>]

\* Flight.clear_locator_points
clear_locator_points(pts) ==
    [loc_pts |-> <<>>, emitted |-> <<on_locator_points_changed(<<>>)>>]

AddLocatorPoint ==
    \E p \in Points :
        LET r == add_locator_point(loc_pts, p)
        IN  /\ loc_pts' = r.loc_pts
            /\ emitted' = r.emitted
            /\ prev_pts' = loc_pts
            /\ op' = "add_locator_point"
            /\ err' = NoError
            /\ UNCHANGED <<flightvars, drawvars, winvars>>

PopLocatorPoint ==
    LET r == pop_locator_point(loc_pts)
    IN  /\ loc_pts' = r.loc_pts
        /\ emitted' = r.emitted
        /\ prev_pts' = loc_pts
        /\ op' = "pop_locator_point"
        /\ err' = NoError
        /\ UNCHANGED <<flightvars, drawvars, winvars>>

ClearLocatorPoints ==
    LET r == clear_locator_points(loc_pts)
    IN  /\ loc_pts' = r.loc_pts
        /\ emitted' = r.emitted
        /\ prev_pts' = loc_pts
        /\ op' = "clear_locator_points"
        /\ err' = NoError
        /\ UNCHANGED <<flightvars, drawvars, winvars>>

NoArgs == <<>>

InitLocator ==
    /\ NoWindow
    /\ loc_pts = <<>>
    /\ prev_pts = <<>>
    /\ op = "init"
    /\ emitted = <<>>
    /\ err = NoError
    /\ pc = "located"
    /\ args = NoArgs
    /\ f1 = None
    /\ f2 = None
    /\ dargs = <<>>
    /\ dout = <<>>

NextLocator == AddLocatorPoint \/ PopLocatorPoint \/ ClearLocatorPoints

SpecLocator == InitLocator /\ [][NextLocator]_vars

\* ------------------------------------------------------------------------
\* Flight: construction
\* ------------------------------------------------------------------------
\* Paths that exist in the file system (Path.exists()).
ExistingPaths == {"1-four_leaf_clover.mp4", "CamCalibration.npz"}

Exists(path) == path \in ExistingPaths

\* The locator points of tests/test_serialization.py, then further points.
TestPts == <<<<942, 1001>>, <<936, 962>>, <<519, 964>>, <<1348, 954>>>>

PtAt(i) == IF i <= Len(TestPts) THEN TestPts[i] ELSE <<i, i>>

PtsOfLen(n) == [i \in 1 .. n |-> PtAt(i)]

\* A dynamically typed Python value: its type and its text.
PyNone == [type |-> "NoneType", repr |-> "None"]

PyInt(digits) == [type |-> "int", repr |-> digits]

PyStr(text) == [type |-> "str", repr |-> text]

\* Values a caller passes to Flight(...). Lengths are in millimetres.
\* cam_index and live_fps are None when the keyword is not passed
\* (kwargs.pop(key, None)). The three lengths are always passed, as both
\* callers (LoadFlightDialog.accept and the serialization test) do; their
\* defaults are defined in videof2b.core.common.
ArgsSet ==
    [vid_path : {"1-four_leaf_clover.mp4"},
     is_live : BOOLEAN,
     cal_path : {None, Some("CamCalibration.npz"), Some("missing.npz")},
     cam_index : {PyNone, PyInt("0"), PyStr("1"), PyStr("abc")},
     live_fps : {None, Some(30)},
     enable_decimator : {None, Some(TRUE)},
     skip_locate : {None, Some(TRUE)},
     flight_radius : {0, 21336},
     marker_radius : {-1, 25000},
     marker_height : {-1, 1510},
     sphere_offset : {None, Some(<<1000, -700, 0>>)},
     loc_pts : {None} \cup {Some(PtsOfLen(n)) : n \in 0 .. MaxCtorPts},
     stream_opens : BOOLEAN]

\* kwargs.pop(key, default)
KwargsPop(value, default) == IF value = None THEN default ELSE value[1]

Digits == {"0", "1", "2", "3", "4", "5", "6", "7", "8", "9"}

\* int(x): the converted value, or the exception raised.
IntOf(x) ==
    CASE x.type = "int" -> [ok |-> TRUE, value |-> x, type |-> "none"]
      [] x.type = "str" /\ x.repr \in Digits ->
             [ok |-> TRUE, value |-> PyInt(x.repr), type |-> "none"]
      [] x.type = "str" /\ x.repr \notin Digits ->
             [ok |-> FALSE, value |-> x, type |-> "ValueError"]
      [] OTHER -> [ok |-> FALSE, value |-> x, type |-> "TypeError"]

\* Flight._load_stream: the fields cap and is_ready it sets. Whether the
\* stream opens is decided by the environment.
load_stream(is_live, cam_index, video_path, opens) ==
    LET fps_in == 30
        fps_out == 25
        session_time == 360 + 20
        frame_buffer == IF is_live /\ fps_out < fps_in
                        THEN session_time * (fps_in - fps_out)
                        ELSE 128
        source == IF is_live /\ cam_index # PyNone
                  THEN cam_index ELSE PyStr(video_path)
    IN  IF opens
        THEN [cap |-> Some([source |-> source, queue_size |-> frame_buffer]),
              is_ready |-> TRUE]
        ELSE [cap |-> None, is_ready |-> FALSE]

\* common.DEFAULT_CENTER: "Defaults to origin (0., 0., 0.)"
DEFAULT_CENTER == <<0, 0, 0>>

\* Flight.__init__: the object built, or the exception raised.
\* (obj_pts, a value derived from marker_radius and marker_height through
\* common.COS_45, is read by no operation modelled here and is left out.)
Flight_init(a) ==
    LET conv == IF a.is_live THEN IntOf(a.cam_index)
                ELSE [ok |-> TRUE, value |-> a.cam_index, type |-> "none"]
        live_fps == a.live_fps
        stream == load_stream(a.is_live, conv.value, a.vid_path, a.stream_opens)
    IN  IF ~conv.ok /\ conv.type = "ValueError"
        THEN [flight |-> None,
              err |-> [type |-> "ValueError",
                       msg |-> "A valid camera index is required for live video."]]
        ELSE IF ~conv.ok
        THEN [flight |-> None,
              err |-> [type |-> conv.type, msg |-> "int() argument"]]
        ELSE IF live_fps = None
        THEN [flight |-> None,
              err |-> [type |-> "ValueError",
                       msg |-> "No frame rate selected for live video."]]
        ELSE [flight |-> Some(
                [num_obj_pts |-> Len(obj_point_names),
                 is_ready |-> stream.is_ready,
                 video_path |-> a.vid_path,
                 is_live |-> a.is_live,
                 cap |-> stream.cap,
                 calibration_path |-> a.cal_path,
                 is_calibrated |-> a.cal_path # None /\ Exists(a.cal_path[1]),
                 is_located |-> FALSE,
                 is_ar_enabled |-> TRUE,
                 cam_index |-> conv.value,
                 live_fps |-> live_fps,
                 is_live_decimator_enabled |-> KwargsPop(a.enable_decimator, FALSE),
                 skip_locate |-> KwargsPop(a.skip_locate, FALSE),
                 flight_radius |-> a.flight_radius,
                 marker_radius |-> a.marker_radius,
                 marker_height |-> a.marker_height,
                 sphere_offset |-> KwargsPop(a.sphere_offset, DEFAULT_CENTER),
                 loc_pts |-> KwargsPop(a.loc_pts, <<>>)]),
              err |-> NoError]

\* f1 = Flight(vid_path, is_live, cal_path, **kwargs)
Construct ==
    /\ pc = "new"
    /\ LET r == Flight_init(args)
       IN  /\ f1' = r.flight
           /\ err' = r.err
           /\ pc' = IF r.flight = None THEN "raised" ELSE "constructed"
    /\ op' = "__init__"
    /\ UNCHANGED <<args, f2, loc_pts, prev_pts, emitted, drawvars, winvars>>

\* f1.restart(): the stream is loaded again.
Restart ==
    /\ pc = "constructed"
    /\ \E opens \in BOOLEAN :
          LET f == f1[1]
              stream == load_stream(f.is_live, f.cam_index, f.video_path, opens)
          IN  f1' = Some([f EXCEPT !.cap = stream.cap,
                                   !.is_ready = stream.is_ready])
    /\ op' = "restart"
    /\ err' = NoError
    /\ UNCHANGED <<pc, args, f2, loc_pts, prev_pts, emitted, drawvars, winvars>>

\* Attribute lookup on a Flight (instance or class): the class body defines
\* __init__, _load_stream, restart, the three locator methods and
\* on_locator_points_changed, and no other method.
FlightMethods ==
    {"__init__", "_load_stream", "restart", "add_locator_point",
     "pop_locator_point", "clear_locator_points", "on_locator_points_changed"}

GetAttr(name) ==
    IF name \in FlightMethods
    THEN NoError
    ELSE [type |-> "AttributeError", msg |-> name]

\* f1.write(flight_path) as called by test_flight_serialization
Write ==
    /\ pc = "constructed"
    /\ err' = GetAttr("write")
    /\ pc' = "write_called"
    /\ op' = "write"
    /\ UNCHANGED <<args, f1, f2, loc_pts, prev_pts, emitted, drawvars, winvars>>

\* f2 = Flight.read(flight_path) as called by test_flight_serialization
Read ==
    /\ pc = "write_called"
    /\ err' = GetAttr("read")
    /\ f2' = None
    /\ pc' = "read_called"
    /\ op' = "read"
    /\ UNCHANGED <<args, f1, loc_pts, prev_pts, emitted, drawvars, winvars>>

InitFlight ==
    /\ NoWindow
    /\ args \in ArgsSet
    /\ pc = "new"
    /\ f1 = None
    /\ f2 = None
    /\ err = NoError
    /\ op = "init"
    /\ loc_pts = <<>>
    /\ prev_pts = <<>>
    /\ emitted = <<>>
    /\ dargs = <<>>
    /\ dout = <<>>

NextFlight == Construct \/ Restart \/ Write \/ Read

SpecFlight == InitFlight /\ [][NextFlight]_vars

\* ------------------------------------------------------------------------
\* Properties of Flight construction and serialization (SpecFlight)
\* ------------------------------------------------------------------------
\* C8: f1.write(path) followed by Flight.read(path) yields a Flight f2 whose
\* video_path, calibration_path, is_calibrated, is_located, is_live,
\* flight_radius, marker_radius, marker_height, sphere_offset and loc_pts
\* equal those of f1.
C8_RoundTrip ==
    pc = "read_called" =>
        /\ err = NoError
        /\ f1 # None
        /\ f2 # None
        /\ f2[1].video_path = f1[1].video_path
        /\ f2[1].calibration_path = f1[1].calibration_path
        /\ f2[1].is_calibrated = f1[1].is_calibrated
        /\ f2[1].is_located = f1[1].is_located
        /\ f2[1].is_live = f1[1].is_live
        /\ f2[1].flight_radius = f1[1].flight_radius
        /\ f2[1].marker_radius = f1[1].marker_radius
        /\ f2[1].marker_height = f1[1].marker_height
        /\ f2[1].sphere_offset = f1[1].sphere_offset
        /\ f2[1].loc_pts = f1[1].loc_pts

\* C9: a Flight constructed with a calibration path that exists and with 4
\* locator points passed through loc_pts is calibrated and located.
C9_CalibratedAndLocated ==
    ( /\ pc = "constructed"
      /\ op = "__init__"
      /\ args.cal_path # None
      /\ Exists(args.cal_path[1])
      /\ args.loc_pts # None
      /\ Len(args.loc_pts[1]) = 4 )
    => (f1[1].is_calibrated = TRUE /\ f1[1].is_located = TRUE)

\* C10: a frame rate is required exactly for live video: without live_fps,
\* a live Flight (with a usable camera index) is rejected with
\* ValueError('No frame rate selected for live video.'), and a Flight that
\* is not live is constructed without error.
C10_FrameRateRequiredIffLive ==
    (op = "__init__" /\ args.live_fps = None) =>
        /\ (args.is_live /\ IntOf(args.cam_index).ok) =>
              /\ f1 = None
              /\ err = [type |-> "ValueError",
                        msg |-> "No frame rate selected for live video."]
        /\ ~args.is_live => (f1 # None /\ err = NoError)

\* C11: with is_live True, a cam_index that is missing (None) or not
\* convertible to an integer makes the constructor raise
\* ValueError('A valid camera index is required for live video.'), and no
\* Flight (hence no opened stream) results.
C11_CameraIndexRequired ==
    (op = "__init__" /\ args.is_live /\ ~IntOf(args.cam_index).ok) =>
        /\ f1 = None
        /\ err = [type |-> "ValueError",
                  msg |-> "A valid camera index is required for live video."]

\* C12: every constructed Flight has flight_radius > 0, marker_radius > 0
\* and marker_height >= 0; inputs violating this never produce a Flight.
C12_SphereGeometryInvariant ==
    f1 # None =>
        /\ f1[1].flight_radius > 0
        /\ f1[1].marker_radius > 0
        /\ f1[1].marker_height >= 0

\* ------------------------------------------------------------------------
\* Properties of the locator point list (SpecLocator)
\* ------------------------------------------------------------------------
Changed(pts, msg) == [sig |-> "locator_points_changed", pts |-> pts, msg |-> msg]

NoDefined(evs) == \A i \in 1 .. Len(evs) : evs[i].sig # "locator_points_defined"

\* C1: starting from an empty list, after any sequence of add, pop and
\* clear calls the length of loc_pts is between 0 and 4 inclusive.
C1_LengthInRange == Len(loc_pts) >= 0 /\ Len(loc_pts) <= 4

\* a fifth add was attempted on a full list
C1_Witness ==
    op = "add_locator_point" /\ Len(prev_pts) = 4 /\ Len(loc_pts) = 4

\* C2: an add on a list of 4 points and a pop on an empty list raise no
\* error, leave loc_pts unchanged and emit no locator signal at all.
C2_OutOfRangeIsNoOp ==
    /\ (op = "add_locator_point" /\ Len(prev_pts) = 4)
          => (err = NoError /\ loc_pts = prev_pts /\ emitted = <<>>)
    /\ (op = "pop_locator_point" /\ prev_pts = <<>>)
          => (err = NoError /\ loc_pts = prev_pts /\ emitted = <<>>)

\* C3: an add that leaves fewer than 4 points does not emit
\* locator_points_defined; the add that brings the list from 3 to 4 points
\* emits it exactly once, after the locator_points_changed of that add.
C3_DefinedOnceOnFourth ==
    op = "add_locator_point" =>
        /\ Len(prev_pts) < 3 => NoDefined(emitted)
        /\ Len(prev_pts) = 3 =>
              /\ Len(emitted) = 2
              /\ emitted[1].sig = "locator_points_changed"
              /\ emitted[2].sig = "locator_points_defined"

C3_Witness ==
    /\ op = "add_locator_point" /\ Len(prev_pts) = 3 /\ Len(loc_pts) = 4
    /\ Len(emitted) = 2 /\ emitted[2].sig = "locator_points_defined"

\* C4: a pop directly after an add on a list shorter than 4 restores the
\* list as it was before the add; a pop from a list of 4 leaves the first
\* three points in order and emits locator_points_changed with the
\* instruction for the fourth point.
C4_PopRemovesLast ==
    [][ op' = "pop_locator_point" =>
          /\ (op = "add_locator_point" /\ Len(prev_pts) < 4)
                => loc_pts' = prev_pts
          /\ Len(loc_pts) = 4 =>
                /\ loc_pts' = <<loc_pts[1], loc_pts[2], loc_pts[3]>>
                /\ emitted' = <<Changed(loc_pts', "Click right marker.")>>
      ]_vars

C4_Witness ==
    /\ op = "pop_locator_point" /\ Len(prev_pts) = 4 /\ Len(loc_pts) = 3
    /\ emitted = <<Changed(loc_pts, "Click right marker.")>>

\* C5: clear_locator_points, called in any state, leaves loc_pts empty and
\* emits exactly one locator_points_changed carrying the empty list and the
\* instruction for the first point, and never locator_points_defined.
C5_ClearResets ==
    op = "clear_locator_points" =>
        /\ loc_pts = <<>>
        /\ emitted = <<Changed(<<>>, "Click circle center.")>>

\* a clear of a partially collected list
C5_Witness ==
    op = "clear_locator_points" /\ Len(prev_pts) = 2 /\ Len(emitted) = 1

ExpectedInstruction ==
    <<"Click circle center.", "Click front marker.", "Click left marker.",
      "Click right marker.", "All points defined.">>

\* C6: every locator_points_changed signal carries the current point list
\* and the instruction naming the object point whose index is the current
\* length of the list ('All points defined.' for length 4).
C6_ChangedCarriesInstruction ==
    \A i \in 1 .. Len(emitted) :
        emitted[i].sig = "locator_points_changed" =>
            /\ emitted[i].pts = loc_pts
            /\ Len(loc_pts) <= 4
            /\ emitted[i].msg = ExpectedInstruction[Len(loc_pts) + 1]

C6_Witness ==
    /\ op = "pop_locator_point" /\ Len(loc_pts) = 2
    /\ emitted = <<Changed(loc_pts, "Click left marker.")>>

\* C7 as stated: once the list holds 4 points neither an add nor a pop
\* changes its contents.
C7_ReadOnlyWhenFull ==
    (Len(prev_pts) = 4 /\ op \in {"add_locator_point", "pop_locator_point"})
        => loc_pts = prev_pts

\* C7 amended: on a list of 4 points an add changes nothing, a pop removes
\* exactly the last point, and a clear empties the list.
C7_FullListTransitions ==
    Len(prev_pts) = 4 =>
        /\ op = "add_locator_point" => loc_pts = prev_pts
        /\ op = "pop_locator_point" =>
              loc_pts = <<prev_pts[1], prev_pts[2], prev_pts[3]>>
        /\ op = "clear_locator_points" => loc_pts = <<>>

C7_Witness ==
    op = "clear_locator_points" /\ Len(prev_pts) = 4 /\ loc_pts = <<>>

\* ------------------------------------------------------------------------
\* Drawing.py: curve generators
\* ------------------------------------------------------------------------
\* A double that is either an exact integer (unit) or a rounding residue
\* (ulp, in units of 1e-17): the value is unit + ulp * 1e-17.
Float(unit, ulp) == [unit |-> unit, ulp |-> ulp]

\* math.cos and math.sin of the double nearest to q quarter turns, q in 0..4:
\* cos gives 1.0, 6.1e-17, -1.0, -1.8e-16, 1.0 and
\* sin gives 0.0, 1.0, 1.2e-16, -1.0, -2.4e-16.
MathCos(q) == << Float(1, 0), Float(0, 6), Float(-1, 0), Float(0, -18), Float(1, 0) >>[q + 1]

MathSin(q) == << Float(0, 0), Float(1, 0), Float(0, 12), Float(-1, 0), Float(0, -24) >>[q + 1]

\* f * r for an integer-valued r
FloatMul(f, r) == Float(f.unit * r, f.ulp * r)

\* range(0, stop) as the sequence 0, 1, ..., stop - 1
Range0(stop) == [i \in 1 .. (IF stop > 0 THEN stop ELSE 0) |-> i - 1]

ZeroDivisionError == [type |-> "ZeroDivisionError", msg |-> "float division by zero"]

\* Segment counts whose steps are whole quarter turns, and 0.
CircumSegs == {n \in 0 .. MaxSeg : n = 0 \/ 4 % n = 0}

HalfCircumSegs == {n \in 0 .. MaxSeg : n = 0 \/ 2 % n = 0}

Radii == -MaxRadius .. MaxRadius

\* Variant of PointsInCircum that iterates over range(0, n).
PointsInCircum_open(r, n) ==
    LET xs == Range0(n)
    IN  IF xs # <<>> /\ n = 0
        THEN [pts |-> <<>>, err |-> ZeroDivisionError]
        ELSE [pts |-> [i \in 1 .. Len(xs) |->
                          << FloatMul(MathCos((4 \div n) * xs[i]), r),
                             FloatMul(MathSin((4 \div n) * xs[i]), r) >>],
              err |-> NoError]

\* PointsInCircum(r, n): the list returned, or the exception raised.
\* 2*pi/n*x is (4/n)*x quarter turns.
PointsInCircum(r, n) ==
    LET xs == Range0(n + 1)
    IN  IF xs # <<>> /\ n = 0
        THEN [pts |-> <<>>, err |-> ZeroDivisionError]
        ELSE [pts |-> [i \in 1 .. Len(xs) |->
                          << FloatMul(MathCos((4 \div n) * xs[i]), r),
                             FloatMul(MathSin((4 \div n) * xs[i]), r) >>],
              err |-> NoError]

\* Variant of PointsInHalfCircum that sweeps a full turn.
PointsInHalfCircum_full(r, n) ==
    LET xs == Range0(n + 1)
    IN  IF xs # <<>> /\ n = 0
        THEN [pts |-> <<>>, err |-> ZeroDivisionError]
        ELSE [pts |-> [i \in 1 .. Len(xs) |->
                          << FloatMul(MathCos((4 \div n) * xs[i]), r),
                             FloatMul(MathSin((4 \div n) * xs[i]), r) >>],
              err |-> NoError]

\* PointsInHalfCircum(r, n): pi/n*x is (2/n)*x quarter turns.
PointsInHalfCircum(r, n) ==
    LET xs == Range0(n + 1)
    IN  IF xs # <<>> /\ n = 0
        THEN [pts |-> <<>>, err |-> ZeroDivisionError]
        ELSE [pts |-> [i \in 1 .. Len(xs) |->
                          << FloatMul(MathCos((2 \div n) * xs[i]), r),
                             FloatMul(MathSin((2 \div n) * xs[i]), r) >>],
              err |-> NoError]

CircumInputs == [fn : {"PointsInCircum"}, r : Radii, n : CircumSegs]

HalfCircumInputs == [fn : {"PointsInHalfCircum"}, r : Radii, n : HalfCircumSegs]

CallPointsInCircum ==
    /\ op = "init"
    /\ dargs.fn = "PointsInCircum"
    /\ LET res == PointsInCircum(dargs.r, dargs.n)
       IN  /\ dout' = res.pts
           /\ err' = res.err
    /\ op' = "PointsInCircum"
    /\ UNCHANGED <<dargs, locdata, flightvars, winvars>>

CallPointsInHalfCircum ==
    /\ op = "init"
    /\ dargs.fn = "PointsInHalfCircum"
    /\ LET res == PointsInHalfCircum(dargs.r, dargs.n)
       IN  /\ dout' = res.pts
           /\ err' = res.err
    /\ op' = "PointsInHalfCircum"
    /\ UNCHANGED <<dargs, locdata, flightvars, winvars>>

\* ------------------------------------------------------------------------
\* Drawing.py: the track
\* ------------------------------------------------------------------------
\* An entry of the track: a screen point, or None for an untracked frame.
TrackEntries == {None} \cup {<<c, c>> : c \in 0 .. MaxCoord}

Tracks == UNION {[1 .. len -> TrackEntries] : len \in 0 .. MaxTrackLen}

Min(a, b) == IF a < b THEN a ELSE b

\* Variant of track_color without the clamp of the red channel.
track_color_unclamped(i, maxlen) ==
    LET color == (255 * i) \div maxlen
    IN  <<0, Min(255, color * 2), (255 - color) * 2>>

\* The colour draw_track gives to the segment ending at index i.
\* int(255 * float(i) / float(maxlen)) truncates a non-negative quotient.
track_color(i, maxlen) ==
    LET color == (255 * i) \div maxlen
    IN  <<0, Min(255, color * 2), Min(255, (255 - color) * 2)>>

\* Variant of draw_track that skips a pair only when both entries are None.
draw_track_skip_both(pts_scaled, maxlen) ==
    LET Valid(i) == ~(pts_scaled[i] = None /\ pts_scaled[i + 1] = None)
        ends == SelectSeq([i \in 1 .. Len(pts_scaled) - 1 |-> i], Valid)
    IN  IF ends # <<>> /\ maxlen = 0
        THEN [lines |-> <<>>, err |-> ZeroDivisionError]
        ELSE [lines |-> [k \in 1 .. Len(ends) |->
                            [i |-> ends[k],
                             pt1 |-> pts_scaled[ends[k]],
                             pt2 |-> pts_scaled[ends[k] + 1],
                             color |-> track_color(ends[k], maxlen)]],
              err |-> NoError]

\* Variant of draw_track that only looks at the entry at index i.
draw_track_skip_current(pts_scaled, maxlen) ==
    LET Valid(i) == pts_scaled[i + 1] # None
        ends == SelectSeq([i \in 1 .. Len(pts_scaled) - 1 |-> i], Valid)
    IN  IF ends # <<>> /\ maxlen = 0
        THEN [lines |-> <<>>, err |-> ZeroDivisionError]
        ELSE [lines |-> [k \in 1 .. Len(ends) |->
                            [i |-> ends[k],
                             pt1 |-> pts_scaled[ends[k]],
                             pt2 |-> pts_scaled[ends[k] + 1],
                             color |-> track_color(ends[k], maxlen)]],
              err |-> NoError]

\* draw_track(img, pts_scaled, maxlen): the cv2.line calls made, in order.
\* The Python index i of range(1, len(pts_scaled)) addresses the entries
\* pts_scaled[i - 1] and pts_scaled[i], which are entries i and i + 1 here.
draw_track(pts_scaled, maxlen) ==
    LET Valid(i) == ~(pts_scaled[i] = None \/ pts_scaled[i + 1] = None)
        ends == SelectSeq([i \in 1 .. Len(pts_scaled) - 1 |-> i], Valid)
    IN  IF ends # <<>> /\ maxlen = 0
        THEN [lines |-> <<>>, err |-> ZeroDivisionError]
        ELSE [lines |-> [k \in 1 .. Len(ends) |->
                            [i |-> ends[k],
                             pt1 |-> pts_scaled[ends[k]],
                             pt2 |-> pts_scaled[ends[k] + 1],
                             color |-> track_color(ends[k], maxlen)]],
              err |-> NoError]

TrackInputs ==
    [fn : {"draw_track"}, pts_scaled : Tracks, maxlen : 1 .. MaxTrackLen + 1]

CallDrawTrack ==
    /\ op = "init"
    /\ dargs.fn = "draw_track"
    /\ LET res == draw_track(dargs.pts_scaled, dargs.maxlen)
       IN  /\ dout' = res.lines
           /\ err' = res.err
    /\ op' = "draw_track"
    /\ UNCHANGED <<dargs, locdata, flightvars, winvars>>

\* ------------------------------------------------------------------------
\* Drawing.py: figures and the AR geometry
\* ------------------------------------------------------------------------
\* Angles are in hundredths of a degree, so that 24.47 degrees is 2447.
Deg(d) == d * 100

White == <<255, 255, 255>>

\* One cv2.projectPoints call of a drawing primitive, with the arguments
\* the primitive was given. (rvec and tvec are handed through unchanged by
\* every function and are left out.)
Projection(fn, angle, r, color, cameramtx, dist) ==
    [fn |-> fn, angle |-> angle, r |-> r, color |-> color,
     cameramtx |-> cameramtx, dist |-> dist]

draw_axis(cameramtx, dist) ==
    << Projection("draw_axis", 0, 0, White, cameramtx, dist) >>

draw_level(cameramtx, dist, r) ==
    << Projection("draw_level", 0, r, White, cameramtx, dist) >>

draw_merid(angle, cameramtx, dist, r, color) ==
    << Projection("draw_merid", angle, r, color, cameramtx, dist) >>

draw_loop(angle, cameramtx, dist, r, color) ==
    << Projection("draw_loop", angle, r, color, cameramtx, dist) >>

draw_top_loop(angle, cameramtx, dist, r, color) ==
    << Projection("draw_top_loop", angle, r, color, cameramtx, dist) >>

drawHorEight(angle, cameramtx, dist, r, color) ==
    draw_loop(angle + 2447, cameramtx, dist, r, White)
        \o draw_loop(angle - 2447, cameramtx, dist, r, White)

drawVerEight(angle, cameramtx, dist, r, color) ==
    draw_loop(angle, cameramtx, dist, r, White)
        \o draw_top_loop(angle, cameramtx, dist, r, White)

\* Variant of drawOverheadEight built from two ordinary loops.
drawOverheadEight_loops(angle, cameramtx, dist, r, color) ==
    draw_loop(angle + Deg(90), cameramtx, dist, r, White)
        \o draw_loop(angle - Deg(90), cameramtx, dist, r, White)

drawOverheadEight(angle, cameramtx, dist, r, color) ==
    draw_top_loop(angle + Deg(90), cameramtx, dist, r, White)
        \o draw_top_loop(angle - Deg(90), cameramtx, dist, r, White)

\* range(0, 180, 45)
MeridAngles == <<0, 45, 90, 135>>

draw_all_merid(cameramtx, dist, r, offsettAngle) ==
    LET Merid(angle) ==
            LET gray == 255 - angle * 2
                color == <<gray, gray, gray>>
            IN  draw_merid(Deg(angle) + offsettAngle, cameramtx, dist, r, color)
    IN  Merid(MeridAngles[1]) \o Merid(MeridAngles[2])
            \o Merid(MeridAngles[3]) \o Merid(MeridAngles[4])

draw_45(cameramtx, dist, r, color) ==
    << Projection("draw_45", 0, r, color, cameramtx, dist) >>

\* Variant of draw_points that projects with the camera's own distortion.
draw_points_cam_dist(cam, dist) ==
    << Projection("draw_points", 0, cam.flightRadius, White,
                  cam.newcameramtx, cam.dist) >>

draw_points(cam, dist) ==
    << Projection("draw_points", 0, cam.flightRadius, White,
                  cam.newcameramtx, dist) >>

\* np.zeros_like(dist)
zeros_like(dist) == [i \in DOMAIN dist |-> 0]

draw_all_geometry(cam, offsettAngle, axis) ==
    LET distZero == zeros_like(cam.dist)
    IN  draw_level(cam.newcameramtx, distZero, cam.flightRadius)
        \o draw_all_merid(cam.newcameramtx, distZero, cam.flightRadius, offsettAngle)
        \o (IF axis THEN draw_axis(cam.newcameramtx, distZero) ELSE <<>>)
        \o draw_45(cam.newcameramtx, distZero, cam.flightRadius, White)
        \o draw_points(cam, distZero)

\* Distortion coefficient vectors.
DistCoeffs == [1 .. 2 -> {-1, 0, 1}]

Angles == {Deg(0), Deg(-45), Deg(90), 1250}

Cameras ==
    [newcameramtx : {"newcameramtx"}, dist : DistCoeffs,
     flightRadius : 1 .. MaxRadius]

FigureInputs ==
    [fn : {"drawHorEight", "drawVerEight", "drawOverheadEight"},
     angle : Angles, cameramtx : {"newcameramtx", "cameramtx"},
     dist : {zeros_like(<<0, 0>>), <<1, -1>>},
     r : 1 .. MaxRadius, color : {White, <<0, 255, 0>>}]

MeridInputs ==
    [fn : {"draw_all_merid"}, cameramtx : {"newcameramtx", "cameramtx"},
     dist : {zeros_like(<<0, 0>>), <<1, -1>>},
     r : 1 .. MaxRadius, offsettAngle : Angles]

GeometryInputs ==
    [fn : {"draw_all_geometry"}, cam : Cameras,
     offsettAngle : Angles, axis : BOOLEAN]

CallDrawHorEight ==
    /\ op = "init"
    /\ dargs.fn = "drawHorEight"
    /\ dout' = drawHorEight(dargs.angle, dargs.cameramtx, dargs.dist,
                            dargs.r, dargs.color)
    /\ op' = "drawHorEight"
    /\ UNCHANGED <<err, dargs, locdata, flightvars, winvars>>

CallDrawVerEight ==
    /\ op = "init"
    /\ dargs.fn = "drawVerEight"
    /\ dout' = drawVerEight(dargs.angle, dargs.cameramtx, dargs.dist,
                            dargs.r, dargs.color)
    /\ op' = "drawVerEight"
    /\ UNCHANGED <<err, dargs, locdata, flightvars, winvars>>

CallDrawOverheadEight ==
    /\ op = "init"
    /\ dargs.fn = "drawOverheadEight"
    /\ dout' = drawOverheadEight(dargs.angle, dargs.cameramtx, dargs.dist,
                                 dargs.r, dargs.color)
    /\ op' = "drawOverheadEight"
    /\ UNCHANGED <<err, dargs, locdata, flightvars, winvars>>

CallDrawAllMerid ==
    /\ op = "init"
    /\ dargs.fn = "draw_all_merid"
    /\ dout' = draw_all_merid(dargs.cameramtx, dargs.dist, dargs.r,
                              dargs.offsettAngle)
    /\ op' = "draw_all_merid"
    /\ UNCHANGED <<err, dargs, locdata, flightvars, winvars>>

CallDrawAllGeometry ==
    /\ op = "init"
    /\ dargs.fn = "draw_all_geometry"
    /\ dout' = draw_all_geometry(dargs.cam, dargs.offsettAngle, dargs.axis)
    /\ op' = "draw_all_geometry"
    /\ UNCHANGED <<err, dargs, locdata, flightvars, winvars>>

\* ------------------------------------------------------------------------
\* Drawing.py: the points of draw_loop and draw_top_loop
\* ------------------------------------------------------------------------
\* Coordinates of 3D points are fixed-point numbers in units of 1e-6 m and
\* matrix entries are in units of 1e-5, which holds every literal of the
\* two functions exactly (0.382683, 0.85356, 0.35355, 0.92388, 0.38268).
Sgn(x) == IF x < 0 THEN -1 ELSE IF x > 0 THEN 1 ELSE 0

Mag(x) == IF x < 0 THEN -x ELSE x

\* a * k for a coordinate a and a matrix entry k, rounded toward zero.
MulFix(a, k) ==
    Sgn(a) * Sgn(k)
        * ((((Mag(a) \div 10000) * Mag(k)) \div 10)
            + (((Mag(a) % 10000) * Mag(k)) \div 100000))

\* np.matmul(points, M) for an N x 3 array of points and a 3 x 3 matrix
matmul(points, M) ==
    [i \in 1 .. Len(points) |->
        [j \in 1 .. 3 |-> MulFix(points[i][1], M[1][j])
                            + MulFix(points[i][2], M[2][j])
                            + MulFix(points[i][3], M[3][j])]]

\* points + center, the centre broadcast over the rows
AddCenter(points, center) ==
    [i \in 1 .. Len(points) |-> [j \in 1 .. 3 |-> points[i][j] + center[j]]]

\* np.asarray(coords, np.float32): the coordinate to fixed-point resolution;
\* the rounding residue of the curve generator is far below it.
Float32(coords) ==
    [i \in 1 .. Len(coords) |-> << coords[i][1].unit, coords[i][2].unit >>]

\* np.c_[np.zeros(1+n), coords]
ZerosThenCoords(coords) ==
    [i \in 1 .. Len(coords) |-> << 0, coords[i][1], coords[i][2] >>]

\* Of the n = 100 segments of a loop the model keeps the points at whole
\* quarter turns (x = 0, 25, 50, 75, 100), i.e. the circle with 4 segments.
LoopSegs == 4

\* math.cos / math.sin of a yaw angle of whole quarter turns, as a matrix
\* entry.
YawCos(angle) == MathCos(angle \div Deg(90)).unit * 100000

YawSin(angle) == MathSin(angle \div Deg(90)).unit * 100000

\* Variant of draw_loop that yaws the tilted circle before translating it.
draw_loop_points_yaw_first(angle, r) ==
    LET c == YawCos(angle)
        s == YawSin(angle)
        center == << 0, 853560 * r, 353550 * r >>
        TiltMatrix == << << 100000, 0, 0 >>,
                         << 0, 92388, 38268 >>,
                         << 0, -38268, 92388 >> >>
        YawMatrix == << << c, -s, 0 >>,
                        << s, c, 0 >>,
                        << 0, 0, 100000 >> >>
        rLoop == r * 382683
        coords == Float32(PointsInCircum(rLoop, LoopSegs).pts)
        points0 == ZerosThenCoords(coords)
        points1 == matmul(points0, << << 0, -100000, 0 >>,
                                      << 100000, 0, 0 >>,
                                      << 0, 0, 100000 >> >>)
        points2 == matmul(points1, TiltMatrix)
        points3 == AddCenter(matmul(points2, YawMatrix), center)
    IN  [rLoop |-> rLoop, center |-> center,
         tilted |-> AddCenter(points2, center), points |-> points3]

\* draw_loop, lines 87-111: the 3D points handed to cv2.projectPoints, with
\* rLoop, center and the points before the yaw.
draw_loop_points(angle, r) ==
    LET c == YawCos(angle)
        s == YawSin(angle)
        center == << 0, 853560 * r, 353550 * r >>
        TiltMatrix == << << 100000, 0, 0 >>,
                         << 0, 92388, 38268 >>,
                         << 0, -38268, 92388 >> >>
        YawMatrix == << << c, -s, 0 >>,
                        << s, c, 0 >>,
                        << 0, 0, 100000 >> >>
        rLoop == r * 382683
        coords == Float32(PointsInCircum(rLoop, LoopSegs).pts)
        points0 == ZerosThenCoords(coords)
        points1 == matmul(points0, << << 0, -100000, 0 >>,
                                      << 100000, 0, 0 >>,
                                      << 0, 0, 100000 >> >>)
        points2 == AddCenter(matmul(points1, TiltMatrix), center)
        points3 == matmul(points2, YawMatrix)
    IN  [rLoop |-> rLoop, center |-> center,
         tilted |-> points2, points |-> points3]

\* Variant of draw_top_loop anchored where draw_loop is.
draw_top_loop_points_loop_anchor(angle, r) ==
    LET c == YawCos(angle)
        s == YawSin(angle)
        center == << 0, 853560 * r, 353550 * r >>
        TiltMatrix == << << 100000, 0, 0 >>,
                         << 0, 38268, 92388 >>,
                         << 0, -92388, 38268 >> >>
        YawMatrix == << << c, -s, 0 >>,
                        << s, c, 0 >>,
                        << 0, 0, 100000 >> >>
        rLoop == r * 382683
        coords == Float32(PointsInCircum(rLoop, LoopSegs).pts)
        points0 == ZerosThenCoords(coords)
        points1 == matmul(points0, << << 0, -100000, 0 >>,
                                      << 100000, 0, 0 >>,
                                      << 0, 0, 100000 >> >>)
        points2 == AddCenter(matmul(points1, TiltMatrix), center)
        points3 == matmul(points2, YawMatrix)
    IN  [rLoop |-> rLoop, center |-> center,
         tilted |-> points2, points |-> points3]

\* draw_top_loop, lines 125-149.
draw_top_loop_points(angle, r) ==
    LET c == YawCos(angle)
        s == YawSin(angle)
        center == << 0, 353550 * r, 853560 * r >>
        TiltMatrix == << << 100000, 0, 0 >>,
                         << 0, 38268, 92388 >>,
                         << 0, -92388, 38268 >> >>
        YawMatrix == << << c, -s, 0 >>,
                        << s, c, 0 >>,
                        << 0, 0, 100000 >> >>
        rLoop == r * 382683
        coords == Float32(PointsInCircum(rLoop, LoopSegs).pts)
        points0 == ZerosThenCoords(coords)
        points1 == matmul(points0, << << 0, -100000, 0 >>,
                                      << 100000, 0, 0 >>,
                                      << 0, 0, 100000 >> >>)
        points2 == AddCenter(matmul(points1, TiltMatrix), center)
        points3 == matmul(points2, YawMatrix)
    IN  [rLoop |-> rLoop, center |-> center,
         tilted |-> points2, points |-> points3]

\* Yaw angles of whole quarter turns.
LoopAngles == {Deg(90 * q) : q \in 0 .. 3}

LoopInputs ==
    [fn : {"draw_loop", "draw_top_loop"}, angle : LoopAngles,
     r : (1 .. MaxRadius) \cup {25}, cameramtx : {"newcameramtx"},
     dist : {zeros_like(<<0, 0>>)}, color : {White, <<0, 255, 0>>}]

CallDrawLoop ==
    /\ op = "init"
    /\ dargs.fn = "draw_loop"
    /\ dout' = [geom |-> draw_loop_points(dargs.angle, dargs.r),
                calls |-> draw_loop(dargs.angle, dargs.cameramtx, dargs.dist,
                                    dargs.r, dargs.color)]
    /\ op' = "draw_loop"
    /\ UNCHANGED <<err, dargs, locdata, flightvars, winvars>>

CallDrawTopLoop ==
    /\ op = "init"
    /\ dargs.fn = "draw_top_loop"
    /\ dout' = [geom |-> draw_top_loop_points(dargs.angle, dargs.r),
                calls |-> draw_top_loop(dargs.angle, dargs.cameramtx,
                                        dargs.dist, dargs.r, dargs.color)]
    /\ op' = "draw_top_loop"
    /\ UNCHANGED <<err, dargs, locdata, flightvars, winvars>>

\* ------------------------------------------------------------------------
\* Drawing.py: the points of draw_merid
\* ------------------------------------------------------------------------
\* math.cos of k eighths of a turn, as a matrix entry (cos(pi/4) is
\* 0.70711 at this resolution).
Cos8(k) ==
    << 100000, 70711, 0, -70711, -100000, -70711, 0, 70711 >>[(k % 8) + 1]

MeridCos(angle) == Cos8(angle \div Deg(45))

\* sin(a) = cos(a - pi/2)
MeridSin(angle) == Cos8((angle \div Deg(45)) + 6)

\* Of the n = 100 segments of a meridian the model keeps the points at
\* whole quarter turns (x = 0, 50, 100), i.e. the half-circle with 2 segments.
MeridSegs == 2

\* Variant of draw_merid whose RotMatrix is the transpose of YawMatrix.
draw_merid_points_transposed(angle, r) ==
    LET c == MeridCos(angle)
        s == MeridSin(angle)
        RotMatrix == << << c, s, 0 >>,
                        << -s, c, 0 >>,
                        << 0, 0, 100000 >> >>
        coords == Float32(PointsInHalfCircum(r * 1000000, MeridSegs).pts)
        points0 == ZerosThenCoords(coords)
    IN  [base |-> points0, points |-> matmul(points0, RotMatrix)]

\* draw_merid, lines 62-74: the 3D points handed to cv2.projectPoints, with
\* the base half-circle before the rotation.
draw_merid_points(angle, r) ==
    LET c == MeridCos(angle)
        s == MeridSin(angle)
        RotMatrix == << << c, s, 0 >>,
                        << s, c, 0 >>,
                        << 0, 0, 100000 >> >>
        coords == Float32(PointsInHalfCircum(r * 1000000, MeridSegs).pts)
        points0 == ZerosThenCoords(coords)
    IN  [base |-> points0, points |-> matmul(points0, RotMatrix)]

\* Meridian angles of whole eighths of a turn.
MeridPointAngles == {Deg(45 * k) : k \in 0 .. 7}

MeridPointInputs ==
    [fn : {"draw_merid"}, angle : MeridPointAngles,
     r : (1 .. MaxRadius) \cup {25}, cameramtx : {"newcameramtx"},
     dist : {zeros_like(<<0, 0>>)}, color : {White, <<0, 255, 0>>}]

CallDrawMerid ==
    /\ op = "init"
    /\ dargs.fn = "draw_merid"
    /\ dout' = [geom |-> draw_merid_points(dargs.angle, dargs.r),
                calls |-> draw_merid(dargs.angle, dargs.cameramtx, dargs.dist,
                                     dargs.r, dargs.color)]
    /\ op' = "draw_merid"
    /\ UNCHANGED <<err, dargs, locdata, flightvars, winvars>>

\* The calls made on Drawing.py, with their arguments.
DrawInputs ==
    CircumInputs \cup HalfCircumInputs \cup TrackInputs
        \cup FigureInputs \cup MeridInputs \cup GeometryInputs
        \cup LoopInputs \cup MeridPointInputs

InitDraw ==
    /\ NoWindow
    /\ dargs \in DrawInputs
    /\ dout = <<>>
    /\ op = "init"
    /\ err = NoError
    /\ loc_pts = <<>>
    /\ prev_pts = <<>>
    /\ emitted = <<>>
    /\ pc = "drawing"
    /\ args = NoArgs
    /\ f1 = None
    /\ f2 = None

NextDraw ==
    \/ CallPointsInCircum
    \/ CallPointsInHalfCircum
    \/ CallDrawTrack
    \/ CallDrawHorEight
    \/ CallDrawVerEight
    \/ CallDrawOverheadEight
    \/ CallDrawAllMerid
    \/ CallDrawAllGeometry
    \/ CallDrawLoop
    \/ CallDrawTopLoop
    \/ CallDrawMerid

SpecDraw == InitDraw /\ [][NextDraw]_vars

\* ------------------------------------------------------------------------
\* Properties of the curve generators and drawing routines (SpecDraw)
\* ------------------------------------------------------------------------
Abs(x) == IF x < 0 THEN -x ELSE x

\* Equality within floating tolerance: same integer part, and residues that
\* differ by at most 1e-15 (100 units of 1e-17) per unit of radius.
Close(a, b, r) == a.unit = b.unit /\ Abs(a.ulp - b.ulp) <= 100 * Abs(r)

\* C13 as stated: for any r and any n, PointsInCircum(r, n) returns exactly
\* n+1 points whose first and last are identical.
C13_ClosedCurveAnyN ==
    op = "PointsInCircum" =>
        /\ err = NoError
        /\ Len(dout) = dargs.n + 1
        /\ Len(dout) > 0
        /\ dout[1] = dout[Len(dout)]

\* C13 amended: for any r and any n >= 1, PointsInCircum(r, n) returns
\* exactly n+1 points, the first is (r, 0), and the last has the same x and
\* equals the first within floating tolerance.
C13_ClosedCurveWithinTolerance ==
    (op = "PointsInCircum" /\ dargs.n >= 1) =>
        /\ err = NoError
        /\ Len(dout) = dargs.n + 1
        /\ dout[1] = << Float(dargs.r, 0), Float(0, 0) >>
        /\ dout[Len(dout)][1] = dout[1][1]
        /\ Close(dout[Len(dout)][2], dout[1][2], dargs.r)

C13_Witness ==
    op = "PointsInCircum" /\ dargs.n = 4 /\ dargs.r = -1 /\ Len(dout) = 5

\* C14 as stated: for any r and any n, PointsInHalfCircum(r, n) returns
\* exactly n+1 points, the first being (r, 0) and the last (-r, 0) within
\* floating tolerance.
C14_HalfCurveAnyN ==
    op = "PointsInHalfCircum" =>
        /\ err = NoError
        /\ Len(dout) = dargs.n + 1
        /\ Len(dout) > 0
        /\ Close(dout[1][1], Float(dargs.r, 0), dargs.r)
        /\ Close(dout[1][2], Float(0, 0), dargs.r)
        /\ Close(dout[Len(dout)][1], Float(-dargs.r, 0), dargs.r)
        /\ Close(dout[Len(dout)][2], Float(0, 0), dargs.r)

\* C14 amended: the same for any r and any n >= 1.
C14_HalfCurveEndpoints ==
    (op = "PointsInHalfCircum" /\ dargs.n >= 1) =>
        /\ err = NoError
        /\ Len(dout) = dargs.n + 1
        /\ Close(dout[1][1], Float(dargs.r, 0), dargs.r)
        /\ Close(dout[1][2], Float(0, 0), dargs.r)
        /\ Close(dout[Len(dout)][1], Float(-dargs.r, 0), dargs.r)
        /\ Close(dout[Len(dout)][2], Float(0, 0), dargs.r)

C14_Witness ==
    /\ op = "PointsInHalfCircum" /\ dargs.n = 2 /\ dargs.r = MaxRadius
    /\ Len(dout) = 3 /\ dout[3][1].unit = -MaxRadius

\* Python indices i (1 <= i < len) of the track whose entries i-1 and i are
\* both points.
ValidPairs(pts) ==
    {i \in 1 .. Len(pts) - 1 : pts[i] # None /\ pts[i + 1] # None}

\* C15: draw_track draws a segment between positions i-1 and i iff both
\* entries are not None; the number of segments equals the number of
\* consecutive valid pairs, and no drawn segment has a hole as an endpoint.
C15_SegmentsIffBothValid ==
    op = "draw_track" =>
        LET pts == dargs.pts_scaled
        IN  /\ \A i \in 1 .. Len(pts) - 1 :
                  (\E k \in 1 .. Len(dout) : dout[k].i = i)
                      <=> (pts[i] # None /\ pts[i + 1] # None)
            /\ Len(dout) = Cardinality(ValidPairs(pts))
            /\ \A k \in 1 .. Len(dout) :
                  /\ dout[k].pt1 # None /\ dout[k].pt2 # None
                  /\ dout[k].pt1 = pts[dout[k].i]
                  /\ dout[k].pt2 = pts[dout[k].i + 1]

\* a track with a hole between two drawn segments
C15_Witness ==
    /\ op = "draw_track" /\ Len(dargs.pts_scaled) = 4
    /\ dargs.pts_scaled[3] = None /\ Len(dout) = 1 /\ dout[1].i = 1

HoleAtIndex2Of5(pts) ==
    /\ Len(pts) = 5
    /\ pts[3] = None
    /\ \A j \in {1, 2, 4, 5} : pts[j] # None

\* C16 as stated: for a 5-point track whose entry at index 2 is a hole,
\* draw_track draws exactly 3 segments, none touching index 2.
C16_ThreeSegments ==
    (op = "draw_track" /\ HoleAtIndex2Of5(dargs.pts_scaled)) =>
        /\ Len(dout) = 3
        /\ \A k \in 1 .. Len(dout) : dout[k].i \notin {2, 3}

\* C16 amended: draw_track draws exactly 2 segments, between indices 0-1
\* and 3-4, none touching index 2.
C16_TwoSegments ==
    (op = "draw_track" /\ HoleAtIndex2Of5(dargs.pts_scaled)) =>
        /\ Len(dout) = 2
        /\ dout[1].i = 1
        /\ dout[2].i = 4
        /\ \A k \in 1 .. Len(dout) : dout[k].i \notin {2, 3}

C16_Witness ==
    op = "draw_track" /\ HoleAtIndex2Of5(dargs.pts_scaled) /\ Len(dout) = 2

\* C17: for a track no longer than maxlen, the colour of the segment ending
\* at index i is determined by int(255*i/maxlen); its three channels are
\* integers in 0..255, the green channel does not decrease with i and the
\* red channel does not increase with i.
C17_ColourFades ==
    (op = "draw_track" /\ Len(dargs.pts_scaled) <= dargs.maxlen) =>
        /\ \A k \in 1 .. Len(dout) :
              LET c == (255 * dout[k].i) \div dargs.maxlen
              IN  /\ dout[k].color[1] = 0
                  /\ dout[k].color[2] = (IF 2 * c > 255 THEN 255 ELSE 2 * c)
                  /\ dout[k].color[3] \in 0 .. 255
                  /\ dout[k].color[2] \in 0 .. 255
        /\ \A k, l \in 1 .. Len(dout) :
              dout[k].i <= dout[l].i =>
                  /\ dout[k].color[2] <= dout[l].color[2]
                  /\ dout[k].color[3] >= dout[l].color[3]

\* a full track of five points in a window of six
C17_Witness ==
    /\ op = "draw_track" /\ Len(dargs.pts_scaled) = 5 /\ dargs.maxlen = 6
    /\ Len(dout) = 4
    /\ dout[1].color[2] < dout[4].color[2]
    /\ dout[1].color[3] > dout[4].color[3]

\* C18: each compound figure draws exactly two primitive loops with the
\* sphere radius unchanged: drawHorEight two draw_loop at angle +/- 24.47,
\* drawVerEight one draw_loop and one draw_top_loop at angle,
\* drawOverheadEight two draw_top_loop at angle +/- 90.
C18_CompoundFigures ==
    op \in {"drawHorEight", "drawVerEight", "drawOverheadEight"} =>
        /\ Len(dout) = 2
        /\ \A k \in 1 .. 2 : dout[k].r = dargs.r
        /\ op = "drawHorEight" =>
              /\ dout[1].fn = "draw_loop" /\ dout[1].angle = dargs.angle + 2447
              /\ dout[2].fn = "draw_loop" /\ dout[2].angle = dargs.angle - 2447
        /\ op = "drawVerEight" =>
              /\ dout[1].fn = "draw_loop" /\ dout[1].angle = dargs.angle
              /\ dout[2].fn = "draw_top_loop" /\ dout[2].angle = dargs.angle
        /\ op = "drawOverheadEight" =>
              /\ dout[1].fn = "draw_top_loop" /\ dout[1].angle = dargs.angle + 9000
              /\ dout[2].fn = "draw_top_loop" /\ dout[2].angle = dargs.angle - 9000

C18_Witness ==
    /\ op = "drawOverheadEight" /\ dargs.angle = 1250 /\ dargs.r = MaxRadius
    /\ Len(dout) = 2 /\ dout[2].angle = -7750

\* C19: draw_all_merid draws exactly four meridians, at offsettAngle + 0,
\* 45, 90 and 135 degrees, with distinct gray levels that decrease linearly
\* from the brightest at 0 to the darkest at 135, every gray level being a
\* valid colour channel value in 0..255.
C19_MeridianFan ==
    op = "draw_all_merid" =>
        /\ Len(dout) = 4
        /\ \A k \in 1 .. 4 :
              /\ dout[k].fn = "draw_merid"
              /\ dout[k].angle = dargs.offsettAngle + 4500 * (k - 1)
              /\ dout[k].color[1] = dout[k].color[2]
              /\ dout[k].color[2] = dout[k].color[3]
              /\ dout[k].color[1] \in 0 .. 255
        /\ \A k \in 1 .. 3 :
              dout[k].color[1] - dout[k + 1].color[1]
                  = dout[1].color[1] - dout[2].color[1]
        /\ dout[1].color[1] > dout[2].color[1]

AllZero(v) == \A i \in DOMAIN v : v[i] = 0

\* C20: every projection performed by draw_all_geometry (level circle,
\* meridian fan, pose axes, 45-degree ring, reference points) uses the
\* all-zero distortion vector and the new camera matrix, never the
\* camera's own distortion coefficients; the pose axes are drawn only when
\* the axis flag is true.
C20_ZeroDistortionEverywhere ==
    op = "draw_all_geometry" =>
        /\ \A k \in 1 .. Len(dout) :
              /\ AllZero(dout[k].dist)
              /\ Len(dout[k].dist) = Len(dargs.cam.dist)
              /\ dout[k].cameramtx = dargs.cam.newcameramtx
        /\ (\E k \in 1 .. Len(dout) : dout[k].fn = "draw_axis") <=> dargs.axis
        /\ \A f \in {"draw_level", "draw_merid", "draw_45", "draw_points"} :
              \E k \in 1 .. Len(dout) : dout[k].fn = f

\* a camera with non-zero distortion, drawn with the pose axes
C20_Witness ==
    /\ op = "draw_all_geometry" /\ dargs.axis /\ dargs.cam.dist = <<1, -1>>
    /\ Len(dout) = 8 /\ dout[6].fn = "draw_axis"

\* |u - v| is within fixed-point rounding in every coordinate
Near(u, v) == \A j \in 1 .. 3 : Mag(u[j] - v[j]) <= 4

\* the anchor (0, a, b) yawed by the figure angle: (a*sin, a*cos, b)
YawedAnchor(center, angle) ==
    << center[2] * MathSin(angle \div 9000).unit,
       center[2] * MathCos(angle \div 9000).unit,
       center[3] >>

\* the middle of two opposite points of the circle, doubled
TwiceMiddle(pts, k) == [j \in 1 .. 3 |-> pts[k][j] + pts[k + 2][j]]

Twice(v) == [j \in 1 .. 3 |-> 2 * v[j]]

\* C21: in draw_loop and draw_top_loop the circle is built in the local
\* frame, tilted, translated by the anchor center and only then yawed by
\* the figure angle: before the yaw the circle is centred at the anchor
\* itself (the tilt came before the translation) and lies in the tilted
\* plane, and the drawn circle is centred at the yawed anchor (the yaw came
\* after the translation) and is the yaw of the circle before it.
C21_TiltTranslateThenYaw ==
    op \in {"draw_loop", "draw_top_loop"} =>
        LET g == dout.geom
            c == MathCos(dargs.angle \div 9000).unit
            s == MathSin(dargs.angle \div 9000).unit
        IN  /\ Len(g.points) = 5
            /\ \A k \in 1 .. 2 :
                  /\ Near(TwiceMiddle(g.tilted, k), Twice(g.center))
                  /\ Near(TwiceMiddle(g.points, k),
                          Twice(YawedAnchor(g.center, dargs.angle)))
            /\ g.tilted[2][2] < g.center[2] /\ g.tilted[2][3] > g.center[3]
            /\ \A k \in 1 .. 5 :
                  Near(g.points[k],
                       << g.tilted[k][1] * c + g.tilted[k][2] * s,
                          g.tilted[k][2] * c - g.tilted[k][1] * s,
                          g.tilted[k][3] >>)

\* a loop yawed by a quarter turn: its anchor has left the plane x = 0
C21_Witness ==
    /\ op = "draw_loop" /\ dargs.angle = 9000 /\ dargs.r = 25
    /\ dout.geom.points[1][1] = dout.geom.center[2]
    /\ dout.geom.points[1][2] = -dout.geom.rLoop
    /\ dout.geom.tilted[1][1] = dout.geom.rLoop

\* C22: for sphere radius r the loop of draw_loop has circle radius
\* r * 0.382683 and, before the yaw, is centred at the anchor
\* (0, 0.85356*r, 0.35355*r); draw_top_loop uses the same radius with the
\* anchor components swapped, (0, 0.35355*r, 0.85356*r). For r = 25 these
\* are 25 * 0.382683 and (0, 0.85356*25, 0.35355*25).
C22_LoopConstants ==
    op \in {"draw_loop", "draw_top_loop"} =>
        LET g == dout.geom
            r == dargs.r
        IN  /\ g.rLoop = r * 382683
            /\ op = "draw_loop" => g.center = << 0, 853560 * r, 353550 * r >>
            /\ op = "draw_top_loop" => g.center = << 0, 353550 * r, 853560 * r >>
            /\ \A k \in 1 .. 2 :
                  Near(TwiceMiddle(g.tilted, k), Twice(g.center))
            /\ Near(g.tilted[1],
                    << g.center[1] + g.rLoop, g.center[2], g.center[3] >>)
            /\ Near(g.tilted[3],
                    << g.center[1] - g.rLoop, g.center[2], g.center[3] >>)
            /\ (op = "draw_loop" /\ r = 25) =>
                  /\ g.rLoop = 9567075
                  /\ g.center = << 0, 21339000, 8838750 >>

C22_Witness ==
    /\ op = "draw_top_loop" /\ dargs.r = 25
    /\ dout.geom.rLoop = 9567075
    /\ dout.geom.center = << 0, 8838750, 21339000 >>

\* np.matmul(points, YawMatrix) with the YawMatrix of draw_loop
Yawed(points, angle) ==
    matmul(points, << << MeridCos(angle), -MeridSin(angle), 0 >>,
                      << MeridSin(angle), MeridCos(angle), 0 >>,
                      << 0, 0, 100000 >> >>)

\* squared distance from the sphere centre, in mm^2
DistSq(p) ==
    LET mm(x) == Mag(x) \div 1000
    IN  mm(p[1]) * mm(p[1]) + mm(p[2]) * mm(p[2]) + mm(p[3]) * mm(p[3])

\* C37: for every angle a and every point (0, y, z) of the base half-circle
\* draw_merid gives (y*sin a, y*cos a, z), which is what the YawMatrix of
\* draw_loop gives for the same angle; every meridian point stays at
\* distance r from the sphere centre (within 0.1 % of r^2), and at angle 0
\* the half-circle is unchanged.
C37_MeridianIsYaw ==
    op = "draw_merid" =>
        LET g == dout.geom
            c == MeridCos(dargs.angle)
            s == MeridSin(dargs.angle)
            r2 == (dargs.r * 1000) * (dargs.r * 1000)
        IN  /\ Len(g.points) = MeridSegs + 1
            /\ \A k \in 1 .. Len(g.points) :
                  /\ g.base[k][1] = 0
                  /\ g.points[k] = << MulFix(g.base[k][2], s),
                                      MulFix(g.base[k][2], c),
                                      g.base[k][3] >>
                  /\ Mag(DistSq(g.points[k]) - r2) * 1000 <= r2
            /\ g.points = Yawed(g.base, dargs.angle)
            /\ dargs.angle = 0 => g.points = g.base

\* the meridian at 45 degrees of the sphere of radius 25: its first point
\* (0, 25, 0) goes to (25*sin, 25*cos, 0)
C37_Witness ==
    /\ op = "draw_merid" /\ dargs.angle = Deg(45) /\ dargs.r = 25
    /\ dout.geom.base[1] = << 0, 25000000, 0 >>
    /\ dout.geom.points[1] = << 17677750, 17677750, 0 >>

\* ------------------------------------------------------------------------
\* VideoWindow (videof2b/ui/video_window.py): mouse clicks
\* ------------------------------------------------------------------------
\* Largest width and height of a frame and of the video window, in pixels.
MaxPixels == 4

\* A QPixmap or a QSize by its width and height; a null QPixmap is 0 x 0.
Size(w, h) == [w |-> w, h |-> h]

NullPixmap == Size(0, 0)

\* VideoWindow.__init__ in a widget of the given size
VideoWindow_init(size, enable_mouse) ==
    [pixmap |-> NullPixmap, scaled_pix_map |-> None, displayed |-> NullPixmap,
     size |-> size, is_mouse_enabled |-> enable_mouse]

\* QPixmap.scaled(size, KeepAspectRatio): no side shorter than one pixel
Scaled(pm, size) ==
    LET rw == (size.h * pm.w) \div pm.h
        sz == IF rw <= size.w
              THEN Size(rw, size.h)
              ELSE Size(size.w, (size.w * pm.h) \div pm.w)
    IN  Size(IF sz.w < 1 THEN 1 ELSE sz.w, IF sz.h < 1 THEN 1 ELSE sz.h)

\* _update_pixmap
update_pixmap(vw, size) ==
    IF vw.pixmap = NullPixmap
    THEN vw
    ELSE [vw EXCEPT !.scaled_pix_map = Some(Scaled(vw.pixmap, size)),
                    !.displayed = Scaled(vw.pixmap, size)]

update_frame(vw, frame) ==
    update_pixmap([vw EXCEPT !.pixmap = frame], vw.size)

\* clear: QLabel.clear() removes the displayed pixmap
clear(vw) == [vw EXCEPT !.pixmap = NullPixmap, !.displayed = NullPixmap]

\* Python's round(num / den) for den > 0: to nearest, ties to even
Round(num, den) ==
    LET q == num \div den
        rem == num % den
    IN  IF 2 * rem < den THEN q
        ELSE IF 2 * rem > den THEN q + 1
        ELSE IF q % 2 = 0 THEN q ELSE q + 1

\* _get_image_point: the image point, None, or the exception raised
get_image_point(vw, pos) ==
    IF vw.scaled_pix_map = None
    THEN [pt |-> None, err |-> "AttributeError"]
    ELSE LET scaled == vw.scaled_pix_map[1]
             orig == vw.pixmap
             \* twice local_offset_y
             offset2 == vw.size.h - vw.displayed.h
             img_x == Round(orig.w * pos[1], scaled.w)
             img_y == Round(orig.h * (2 * pos[2] - offset2), 2 * scaled.h)
         IN  IF img_x < 0 \/ img_x >= orig.w \/ img_y < 0 \/ img_y >= orig.h
             THEN [pt |-> None, err |-> "none"]
             ELSE [pt |-> Some(<<img_x, img_y>>), err |-> "none"]

\* _point_reaction: what is emitted, and the exception raised
point_reaction(vw, pos, signal) ==
    IF signal = None
    THEN [emitted |-> <<>>, err |-> "none"]
    ELSE LET img_point == get_image_point(vw, pos)
         IN  IF img_point.pt # None
             THEN [emitted |-> << [sig |-> signal[1], pt |-> img_point.pt[1]] >>,
                   err |-> "none"]
             ELSE [emitted |-> <<>>, err |-> img_point.err]

\* options.get(button)
ButtonSignal(button) ==
    IF button = "LeftButton" THEN Some("point_added")
    ELSE IF button = "RightButton" THEN Some("point_removed")
    ELSE None

\* Variant of mousePressEvent that reacts whatever is_mouse_enabled is.
mousePressEvent_always(vw, button, pos) ==
    point_reaction(vw, pos, ButtonSignal(button))

mousePressEvent(vw, button, pos) ==
    IF ~vw.is_mouse_enabled
    THEN [emitted |-> <<>>, err |-> "none"]
    ELSE point_reaction(vw, pos, ButtonSignal(button))

\* Sizes whose ratios are exact doubles (powers of two).
PixelSizes == {n \in 1 .. MaxPixels : n \in {1, 2, 4, 8}}

\* A video window of some size that has shown no frame yet, shows a frame,
\* or was cleared after showing one.
VideoWindows ==
    LET sizes == {Size(w, h) : w \in PixelSizes, h \in PixelSizes}
        fresh == {VideoWindow_init(sz, en) : sz \in sizes, en \in BOOLEAN}
        framed == {update_frame(vw, fr) : vw \in fresh, fr \in sizes}
    IN  fresh \cup framed \cup {clear(vw) : vw \in framed}

\* A click of a button at a position inside the widget.
MouseInputs ==
    {a \in [fn : {"mousePressEvent"}, vw : VideoWindows,
            button : {"LeftButton", "RightButton", "MiddleButton"},
            pos : (0 .. MaxPixels - 1) \X (0 .. MaxPixels - 1)] :
        a.pos[1] < a.vw.size.w /\ a.pos[2] < a.vw.size.h}

InitVideoWindow ==
    /\ dargs \in MouseInputs
    /\ dout = <<>>
    /\ op = "init"
    /\ emitted = <<>>
    /\ err = NoError
    /\ loc_pts = <<>>
    /\ prev_pts = <<>>
    /\ pc = "video_window"
    /\ args = NoArgs
    /\ f1 = None
    /\ f2 = None
    /\ NoWindow

MousePress ==
    /\ op = "init"
    /\ LET res == mousePressEvent(dargs.vw, dargs.button, dargs.pos)
       IN  /\ emitted' = res.emitted
           /\ err' = [type |-> res.err, msg |-> ""]
    /\ op' = "mousePressEvent"
    /\ UNCHANGED <<loc_pts, prev_pts, dargs, dout, flightvars, winvars>>

NextVideoWindow == MousePress

SpecVideoWindow == InitVideoWindow /\ [][NextVideoWindow]_vars

\* The image pixel k is the nearest to where coordinate num / den falls.
Nearest(k, num, den) == 2 * Mag(num - k * den) <= den

\* C33: mousePressEvent emits point_added for a left click and
\* point_removed for a right click, exactly once, only when is_mouse_enabled
\* is true and the click maps to a coordinate inside the original image
\* (0 <= x < width, 0 <= y < height); with the mouse disabled, for any other
\* button, or for a click that maps outside the image it emits nothing.
C33_ClickEmitsOnceInBounds ==
    op = "mousePressEvent" =>
        LET vw == dargs.vw
            sig == ButtonSignal(dargs.button)
            framed == vw.scaled_pix_map # None
            numx == vw.pixmap.w * dargs.pos[1]
            denx == IF framed THEN vw.scaled_pix_map[1].w ELSE 1
            numy == vw.pixmap.h * (2 * dargs.pos[2] - (vw.size.h - vw.displayed.h))
            deny == IF framed THEN 2 * vw.scaled_pix_map[1].h ELSE 1
            inside == {p \in (0 .. vw.pixmap.w - 1) \X (0 .. vw.pixmap.h - 1) :
                          Nearest(p[1], numx, denx) /\ Nearest(p[2], numy, deny)}
            strictly == {p \in inside :
                            /\ 2 * Mag(numx - p[1] * denx) < denx
                            /\ 2 * Mag(numy - p[2] * deny) < deny}
        IN  /\ Len(emitted) <= 1
            /\ emitted # <<>> =>
                  /\ vw.is_mouse_enabled /\ framed /\ sig # None
                  /\ emitted[1].sig = sig[1]
                  /\ emitted[1].pt \in inside
            /\ (vw.is_mouse_enabled /\ framed /\ sig # None /\ strictly # {})
                  => emitted # <<>>
            /\ (vw.is_mouse_enabled /\ framed /\ sig # None /\ inside = {})
                  => emitted = <<>>

\* a right click on the lower right pixel of a 4 x 2 frame shown at half
\* size, vertically centred in a 2 x 4 window
C33_Witness ==
    /\ op = "mousePressEvent"
    /\ dargs.button = "RightButton"
    /\ dargs.vw.pixmap = Size(4, 2) /\ dargs.vw.size = Size(2, 4)
    /\ dargs.pos = <<1, 2>>
    /\ emitted = << [sig |-> "point_removed", pt |-> <<2, 1>>] >>

\* ------------------------------------------------------------------------
\* AudioProcessor (videof2b/core/audio_processor.py)
\* ------------------------------------------------------------------------
\* Number of chunks the stream callback writes in one recording.
MaxFrames == 6

nonaudio == <<loc_pts, prev_pts, op, emitted, err, pc, args, f1, f2, dargs,
              dout, is_window_closing, proc, proc_thread, calibrator, workers,
              queue, modal, closed, saved, act_enabled, connections, checked,
              fig_enabled, last_flight, is_mouse_enabled, inbox>>

\* AudioProcessor.__init__; at is the position of the thread that calls
\* run(): "created" (run() not yet called), "wait_name" (line 80),
\* "wait_start" (line 96), "recording" (line 102), "closing" (line 109) and
\* "finished" (finished was emitted), and "failed" (run() caught an
\* exception of _process). stop_requested records that stop() was called
\* and frames counts the chunks written by _callback.
AudioProcessor_init(audio_path) ==
    [at |-> "created", audio_path |-> audio_path, audio_file |-> None,
     keep_processing |-> FALSE, start_recording |-> FALSE,
     is_recorded |-> FALSE, frames |-> 0, finished |-> 0, exc |-> FALSE,
     stop_requested |-> FALSE]

\* new_name.with_suffix('.wav')
on_new_name(a, new_name) == [a EXCEPT !.audio_path = Some(new_name)]

start(a) == [a EXCEPT !.start_recording = TRUE]

stop(a) == [a EXCEPT !.keep_processing = FALSE, !.stop_requested = TRUE]

\* _process, line 77
process_begin(a) == [a EXCEPT !.keep_processing = TRUE, !.at = "wait_name"]

\* _process, lines 80-95: the wait for the file name is over; wave.open or
\* the opening of the input stream may raise, which run() catches.
process_open(a, raises) ==
    IF raises
    THEN [a EXCEPT !.exc = TRUE, !.at = "failed"]
    ELSE [a EXCEPT !.audio_file = a.audio_path, !.at = "wait_start"]

\* _process, lines 96-108: the wait for the start signal is over
process_started(a) ==
    IF a.keep_processing
    THEN [a EXCEPT !.at = "recording"]
    ELSE [a EXCEPT !.at = "closing"]

\* _process, lines 102-106: the recording loop is over
process_recorded(a) == [a EXCEPT !.is_recorded = TRUE, !.at = "closing"]

\* _process, lines 109-117: the empty file is deleted by the name
\* audio_path has now; unlink(missing_ok=False) raises FileNotFoundError
\* when that is not the name of the file that was opened.
process_end(a) ==
    IF ~a.is_recorded /\ a.audio_path # a.audio_file
    THEN [a EXCEPT !.exc = TRUE, !.at = "failed"]
    ELSE [a EXCEPT !.finished = @ + 1, !.at = "finished"]

\* _callback
callback(a) == [a EXCEPT !.frames = @ + 1]

InitAudio ==
    /\ \E audio_path \in {None, Some("output.wav")} :
          audio = AudioProcessor_init(audio_path)
    /\ op = "init"
    /\ emitted = <<>>
    /\ err = NoError
    /\ loc_pts = <<>>
    /\ prev_pts = <<>>
    /\ pc = "audio"
    /\ args = NoArgs
    /\ f1 = None
    /\ f2 = None
    /\ dargs = <<>>
    /\ dout = <<>>
    /\ is_window_closing = FALSE
    /\ proc = None
    /\ proc_thread = None
    /\ calibrator = None
    /\ workers = <<>>
    /\ queue = <<>>
    /\ modal = <<>>
    /\ closed = FALSE
    /\ saved = 0
    /\ act_enabled = <<>>
    /\ connections = <<>>
    /\ checked = <<>>
    /\ fig_enabled = FALSE
    /\ last_flight = FALSE
    /\ is_mouse_enabled = FALSE
    /\ inbox = <<>>

\* The owner of the processor calls on_new_name, start or stop.
AudioNewName ==
    /\ audio.at \notin {"finished", "failed"}
    /\ audio' = on_new_name(audio, "recording.wav")
    /\ UNCHANGED nonaudio

AudioStart ==
    /\ audio.at \notin {"finished", "failed"}
    /\ audio' = start(audio)
    /\ UNCHANGED nonaudio

AudioStop ==
    /\ audio.at \notin {"finished", "failed"}
    /\ audio' = stop(audio)
    /\ UNCHANGED nonaudio

\* The thread of the processor starts and calls run().
AudioRun ==
    /\ audio.at = "created"
    /\ audio' = process_begin(audio)
    /\ UNCHANGED nonaudio

\* while self.audio_path is None
AudioOpen ==
    /\ audio.at = "wait_name"
    /\ audio.audio_path # None
    /\ \E raises \in BOOLEAN : audio' = process_open(audio, raises)
    /\ UNCHANGED nonaudio

\* while not self._start_recording and self._keep_processing
AudioStarted ==
    /\ audio.at = "wait_start"
    /\ audio.start_recording \/ ~audio.keep_processing
    /\ audio' = process_started(audio)
    /\ UNCHANGED nonaudio

\* The audio device delivers a chunk to the stream callback.
AudioCallback ==
    /\ audio.at = "recording"
    /\ audio.frames < MaxFrames
    /\ audio' = callback(audio)
    /\ UNCHANGED nonaudio

\* while stream.is_active() and self._keep_processing: the callback always
\* returns paContinue, so the stream stays active.
AudioRecorded ==
    /\ audio.at = "recording"
    /\ ~audio.keep_processing
    /\ audio' = process_recorded(audio)
    /\ UNCHANGED nonaudio

AudioEnd ==
    /\ audio.at = "closing"
    /\ audio' = process_end(audio)
    /\ UNCHANGED nonaudio

NextAudio ==
    \/ AudioNewName
    \/ AudioStart
    \/ AudioStop
    \/ AudioRun
    \/ AudioOpen
    \/ AudioStarted
    \/ AudioCallback
    \/ AudioRecorded
    \/ AudioEnd

\* The thread is started and runs: run() is called and every loop of
\* _process whose condition is false is left. Nothing is assumed of the
\* calls of on_new_name, start and stop.
FairAudio ==
    /\ WF_vars(AudioRun)
    /\ WF_vars(AudioOpen)
    /\ WF_vars(AudioStarted)
    /\ WF_vars(AudioRecorded)
    /\ WF_vars(AudioEnd)

SpecAudio == InitAudio /\ [][NextAudio]_vars /\ FairAudio

\* C36: after a stop() request made at any point of the AudioProcessor's
\* life (before run() begins, while it waits for the audio file name, while
\* it waits for the start signal, or while recording), the processing loop
\* eventually exits and the finished signal is emitted.
C36_StopNeverLost ==
    (audio.stop_requested) ~> (audio.finished = 1)

\* ------------------------------------------------------------------------
\* MainWindow (videof2b/ui/main_window.py)
\* ------------------------------------------------------------------------
\* Number of workers (video processors and calibrators) created in a session.
MaxWorkers == 2
\* Number of ar_geometry_available signals waiting in the UI thread's queue.
MaxQueue == 2

othervars == <<prev_pts, pc, args, f1, f2, dargs, dout, audio>>

\* The state of the main window as one value, handed from one call of a
\* handler to the next. emitted and err start empty for each handler.
UI ==
    [is_window_closing |-> is_window_closing, proc |-> proc,
     proc_thread |-> proc_thread, calibrator |-> calibrator,
     workers |-> workers, queue |-> queue, modal |-> modal,
     closed |-> closed, saved |-> saved, act_enabled |-> act_enabled,
     connections |-> connections, checked |-> checked,
     fig_enabled |-> fig_enabled, last_flight |-> last_flight,
     is_mouse_enabled |-> is_mouse_enabled, inbox |-> inbox,
     loc_pts |-> loc_pts, emitted |-> <<>>, err |-> NoError]

\* The handler named o has run and left the window in state u.
Becomes(u, o) ==
    /\ is_window_closing' = u.is_window_closing
    /\ proc' = u.proc
    /\ proc_thread' = u.proc_thread
    /\ calibrator' = u.calibrator
    /\ workers' = u.workers
    /\ queue' = u.queue
    /\ modal' = u.modal
    /\ closed' = u.closed
    /\ saved' = u.saved
    /\ act_enabled' = u.act_enabled
    /\ connections' = u.connections
    /\ checked' = u.checked
    /\ fig_enabled' = u.fig_enabled
    /\ last_flight' = u.last_flight
    /\ is_mouse_enabled' = u.is_mouse_enabled
    /\ inbox' = u.inbox
    /\ loc_pts' = u.loc_pts
    /\ emitted' = u.emitted
    /\ err' = u.err
    /\ op' = o
    /\ UNCHANGED othervars

\* signal.emit(...)
Emit(u, ev) == [u EXCEPT !.emitted = Append(@, ev)]

\* An exception leaves the handler.
Raise(u, type) == [u EXCEPT !.err = [type |-> type, msg |-> ""]]

\* Object names of the checkboxes of fig_chk_boxes, in tuple order.
fig_chk_boxes ==
    << "chk_loops", "chk_sq_loops", "chk_tri_loops", "chk_hor_eight",
       "chk_sq_hor_eight", "chk_ver_eight", "chk_hourglass",
       "chk_over_eight", "chk_clover" >>

\* Variant of the table in which two checkboxes share a figure type.
fig_chk_names_types_shared ==
    [chk_loops |-> "INSIDE_LOOPS",
     chk_sq_loops |-> "INSIDE_LOOPS",
     chk_tri_loops |-> "INSIDE_TRIANGULAR_LOOPS",
     chk_hor_eight |-> "HORIZONTAL_EIGHTS",
     chk_sq_hor_eight |-> "HORIZONTAL_SQUARE_EIGHTS",
     chk_ver_eight |-> "VERTICAL_EIGHTS",
     chk_hourglass |-> "HOURGLASS",
     chk_over_eight |-> "OVERHEAD_EIGHTS",
     chk_clover |-> "FOUR_LEAF_CLOVER"]

\* MainWindow._fig_chk_names_types
fig_chk_names_types ==
    [chk_loops |-> "INSIDE_LOOPS",
     chk_sq_loops |-> "INSIDE_SQUARE_LOOPS",
     chk_tri_loops |-> "INSIDE_TRIANGULAR_LOOPS",
     chk_hor_eight |-> "HORIZONTAL_EIGHTS",
     chk_sq_hor_eight |-> "HORIZONTAL_SQUARE_EIGHTS",
     chk_ver_eight |-> "VERTICAL_EIGHTS",
     chk_hourglass |-> "HOURGLASS",
     chk_over_eight |-> "OVERHEAD_EIGHTS",
     chk_clover |-> "FOUR_LEAF_CLOVER"]

figure_state_changed(fig, state) ==
    [sig |-> "figure_state_changed", fig |-> fig, state |-> state]

\* _get_figure_state: the indices (from 1) of the checked figures
get_figure_state(u) == {i \in 1 .. Len(fig_chk_boxes) : u.checked[i]}

First(figs_checked) == CHOOSE i \in figs_checked : \A j \in figs_checked : i <= j

\* on_chk_figure_changed with checkbox i as the sender
on_chk_figure_changed(u, i) ==
    LET name == fig_chk_boxes[i]
    IN  IF name \notin DOMAIN fig_chk_names_types
        THEN Raise(u, "KeyError")
        ELSE LET u1 == Emit(u, figure_state_changed(fig_chk_names_types[name],
                                                    u.checked[i]))
                 figs_checked == get_figure_state(u1)
                 num_checked == Cardinality(figs_checked)
             IN  IF num_checked = 0
                 THEN [u1 EXCEPT !.act_enabled.next_figure = TRUE]
                 ELSE IF \/ /\ num_checked = 1
                            /\ First(figs_checked) = Len(fig_chk_boxes)
                         \/ num_checked > 1
                      THEN [u1 EXCEPT !.act_enabled.next_figure = FALSE]
                      ELSE [u1 EXCEPT !.act_enabled.next_figure = TRUE]

\* stateChanged of checkbox i calls its slot once per connection.
RECURSIVE stateChanged(_, _, _)
stateChanged(u, i, n) ==
    IF n = 0 THEN u ELSE stateChanged(on_chk_figure_changed(u, i), i, n - 1)

\* fig_chk_boxes[i].setChecked(b)
setChecked(u, i, b) ==
    IF u.checked[i] = b
    THEN u
    ELSE stateChanged([u EXCEPT !.checked[i] = b], i,
                      u.connections.state_changed)

\* Variant of on_next_figure that leaves the current figure checked.
on_next_figure_keep(u) ==
    LET figs_checked == get_figure_state(u)
        num_checked == Cardinality(figs_checked)
    IN  IF num_checked = 0
        THEN setChecked(u, 1, TRUE)
        ELSE IF num_checked = 1
             THEN LET idx == First(figs_checked)
                  IN  IF idx < Len(fig_chk_boxes)
                      THEN setChecked(u, idx + 1, TRUE)
                      ELSE u
             ELSE u

on_next_figure(u) ==
    LET figs_checked == get_figure_state(u)
        num_checked == Cardinality(figs_checked)
    IN  IF num_checked = 0
        THEN setChecked(u, 1, TRUE)
        ELSE IF num_checked = 1
             THEN LET idx == First(figs_checked)
                  IN  IF idx < Len(fig_chk_boxes)
                      THEN setChecked(setChecked(u, idx, FALSE), idx + 1, TRUE)
                      ELSE u
             ELSE u

\* _enable_figure_controls
enable_figure_controls(u, enable) ==
    [u EXCEPT !.fig_enabled = enable, !.act_enabled.next_figure = enable]

\* _reset_figure_controls: setChecked(False) on every figure checkbox
RECURSIVE reset_from(_, _)
reset_from(u, i) ==
    IF i > Len(fig_chk_boxes) THEN u
    ELSE reset_from(setChecked(u, i, FALSE), i + 1)

reset_figure_controls(u) == reset_from(u, 1)

on_ar_geometry_available(u, is_available) ==
    enable_figure_controls(u, is_available)

\* A slot call posted to the UI thread by worker w.
Call(slot, w, arg) == [slot |-> slot, w |-> w, arg |-> arg]

\* The UI thread is in its event loop with no posted slot call pending:
\* the next thing it handles is an input of the user.
Idle == ~closed /\ queue = <<>>

\* The user clicks figure checkbox i.
ToggleFigure(i) ==
    /\ Idle
    /\ modal = <<>>
    /\ fig_enabled
    /\ Becomes(setChecked(UI, i, ~checked[i]), "toggle")

\* The user triggers act_next_figure.
NextFigure ==
    /\ Idle
    /\ modal = <<>>
    /\ act_enabled.next_figure
    /\ Becomes(on_next_figure(UI), "on_next_figure")

\* A running video processor emits ar_geometry_available.
EmitArGeometryAvailable ==
    /\ ~closed
    /\ Len(queue) < MaxQueue
    /\ \E w \in 1 .. Len(workers), is_available \in BOOLEAN :
          /\ workers[w].kind = "proc"
          /\ workers[w].st = "running"
          /\ queue' = Append(queue, Call("on_ar_geometry_available", w,
                                         is_available))
    /\ UNCHANGED <<is_window_closing, proc, proc_thread, calibrator, workers,
                   modal, closed, saved, act_enabled, connections, checked,
                   fig_enabled, last_flight, is_mouse_enabled, inbox, loc_pts,
                   op, emitted, err, othervars>>

\* The UI thread takes the oldest posted slot call.
Taken == [UI EXCEPT !.queue = Tail(queue)]

HandleArGeometryAvailable ==
    /\ ~closed
    /\ queue # <<>>
    /\ Head(queue).slot = "on_ar_geometry_available"
    /\ Becomes(on_ar_geometry_available(Taken, Head(queue).arg),
               "on_ar_geometry_available")

Worker(kind, st) ==
    [kind |-> kind, st |-> st, stop |-> FALSE, exc |-> FALSE, loc |-> "idle"]

\* The figure panel while the first flight of a session is processed.
InitFigures ==
    /\ is_window_closing = FALSE
    /\ proc = Some(1)
    /\ proc_thread = Some(1)
    /\ calibrator = None
    /\ workers = << Worker("proc", "running") >>
    /\ queue = <<>>
    /\ modal = <<>>
    /\ closed = FALSE
    /\ saved = 0
    /\ act_enabled = [file_load |-> FALSE, tools_cal_cam |-> FALSE,
                      restart_flight |-> TRUE, tools_place_cam |-> TRUE,
                      pause_resume |-> TRUE, next_figure |-> FALSE]
    /\ connections = [stop_proc |-> 1, proc_actions |-> 1, state_changed |-> 1]
    /\ checked = [i \in 1 .. Len(fig_chk_boxes) |-> FALSE]
    /\ fig_enabled = FALSE
    /\ last_flight = TRUE
    /\ is_mouse_enabled = FALSE
    /\ inbox = <<>>
    /\ audio = <<>>
    /\ op = "init"
    /\ emitted = <<>>
    /\ err = NoError
    /\ loc_pts = <<>>
    /\ prev_pts = <<>>
    /\ pc = "window"
    /\ args = NoArgs
    /\ f1 = None
    /\ f2 = None
    /\ dargs = <<>>
    /\ dout = <<>>

NextFigures ==
    \/ \E i \in 1 .. Len(fig_chk_boxes) : ToggleFigure(i)
    \/ NextFigure
    \/ EmitArGeometryAvailable
    \/ HandleArGeometryAvailable

SpecFigures == InitFigures /\ [][NextFigures]_vars

\* ------------------------------------------------------------------------
\* Claims on the figure panel
\* ------------------------------------------------------------------------
NumFigs == Len(fig_chk_boxes)

CheckedSet(c) == {i \in 1 .. NumFigs : c[i]}

OnlyChecked(i) == [j \in 1 .. NumFigs |-> j = i]

\* a step of NextFigure (no other step that changes the state ends with
\* this operation name and the same queue)
NextFigureStep == op' = "on_next_figure" /\ queue' = queue

\* C24: on_next_figure follows its documented behaviour for every checkbox
\* state: with two or more figures checked, or only the last one, nothing
\* changes; with none checked the first figure becomes checked; otherwise
\* the single checked figure is unchecked and the next one is checked. So
\* from at most one checked figure exactly one is checked afterwards, and
\* from no figure the nine figures are visited in order up to the last.
C24_NextFigureAdvances ==
    [][NextFigureStep =>
        LET figs == CheckedSet(checked)
            num == Cardinality(figs)
        IN  /\ (num >= 2 \/ figs = {NumFigs}) => checked' = checked
            /\ num = 0 => checked' = OnlyChecked(1)
            /\ \A i \in 1 .. NumFigs - 1 :
                  figs = {i} => checked' = OnlyChecked(i + 1)
            /\ num <= 1 => Cardinality(CheckedSet(checked')) = 1]_vars

\* the eighth figure has just been advanced to the ninth
C24_Witness ==
    /\ op = "on_next_figure"
    /\ checked = OnlyChecked(NumFigs)
    /\ Len(emitted) = 2
    /\ emitted[1] = figure_state_changed("OVERHEAD_EIGHTS", FALSE)
    /\ emitted[2] = figure_state_changed("FOUR_LEAF_CLOVER", TRUE)

\* C27: while the figure controls are enabled, the next-figure action is
\* enabled exactly when no figure is checked or exactly one figure other
\* than the last is checked, and disabled when the last figure alone or
\* more than one figure is checked.
C27_NextFigureEnabledConsistent ==
    fig_enabled =>
        LET figs == CheckedSet(checked)
        IN  act_enabled.next_figure <=>
                \/ figs = {}
                \/ Cardinality(figs) = 1 /\ figs # {NumFigs}

\* C28: the checkbox-name to figure-type table is total and injective over
\* the nine figure checkboxes, so on_chk_figure_changed never fails its
\* lookup and always reports the toggled checkbox's own figure with its
\* current checked state.
C28_FigureTableTotalInjective ==
    [][/\ \A i \in 1 .. NumFigs : fig_chk_boxes[i] \in DOMAIN fig_chk_names_types
       /\ \A i, j \in 1 .. NumFigs :
             fig_chk_names_types[fig_chk_boxes[i]]
                 = fig_chk_names_types[fig_chk_boxes[j]] => i = j
       /\ err'.type # "KeyError"
       /\ (op' = "toggle" /\ queue' = queue) =>
             \E i \in 1 .. NumFigs :
                 /\ checked' = [checked EXCEPT ![i] = ~checked[i]]
                 /\ Len(emitted') = connections.state_changed
                 /\ \A k \in 1 .. Len(emitted') :
                       emitted'[k] = figure_state_changed(
                           fig_chk_names_types[fig_chk_boxes[i]], checked'[i])]_vars

C28_Witness ==
    /\ op = "toggle"
    /\ checked[NumFigs] /\ checked[1]
    /\ emitted = << figure_state_changed("FOUR_LEAF_CLOVER", TRUE) >>

\* ------------------------------------------------------------------------
\* MainWindow: worker threads and the closing of the window
\* ------------------------------------------------------------------------
\* A worker and its thread are one entry of workers: "created" (no thread
\* yet), "running" (its run() is executing), "done" (run() has emitted
\* finished, the thread's event loop is still running), "exiting" (exit()
\* was called on the thread), "finished" (the thread has emitted finished)
\* and "destroyed" (the QThread object is deleted).
\* loc is where a video processor is with the locating of the camera:
\* "idle", "locating" or "located". last_flight tells whether _last_flight
\* is set, and loc_pts are the locator points of that flight (a flight made
\* by LoadFlightDialog from the most recently used points is left out).
\* Labels, the progress bar and the start/end-point and diagnostics
\* checkboxes are left out.

\* QThread.isRunning()
isRunning(u, t) == u.workers[t].st \in {"running", "done", "exiting"}

save_settings(u) == [u EXCEPT !.saved = @ + 1]

\* stop_processor is connected to the stop slot of every worker that has
\* not been deleted.
on_stop_proc(u) ==
    LET u1 == Emit(u, [sig |-> "stop_processor"])
    IN  [u1 EXCEPT !.workers =
            [w \in 1 .. Len(u.workers) |->
                IF u.workers[w].st \in {"created", "running"}
                THEN [u.workers[w] EXCEPT !.stop = TRUE]
                ELSE u.workers[w]]]

\* closeEvent up to the answer of the user to the warning box (if it is
\* shown); the rest of the handler is closeEvent_answered.
closeEvent(u) ==
    LET u1 == [u EXCEPT !.is_window_closing = TRUE]
    IN  IF u1.proc_thread # None /\ isRunning(u1, u1.proc_thread[1])
        THEN [u1 EXCEPT !.modal = Append(@, "quit")]
        ELSE save_settings([u1 EXCEPT !.closed = TRUE])

\* closeEvent from the answer on: the event is ignored either way.
closeEvent_answered(u, yes) ==
    IF yes
    THEN on_stop_proc(u)
    ELSE [u EXCEPT !.is_window_closing = FALSE]

\* _init_proc
init_proc(u) ==
    [u EXCEPT !.workers = Append(@, Worker("proc", "created")),
              !.proc = Some(Len(u.workers) + 1),
              !.connections.stop_proc = @ + 1,
              !.connections.proc_actions = @ + 1,
              !.connections.state_changed = @ + 1]

\* What a disconnect() of a slot connected n > 0 times leaves: one
\* connection less, or none.
Disconnected(n, one) == IF one THEN n - 1 ELSE 0

\* _deinit_proc
deinit_proc(u, one) ==
    IF u.connections.stop_proc = 0
    THEN Raise(u, "RuntimeError")
    ELSE LET u1 == [u EXCEPT !.connections.stop_proc = Disconnected(@, one)]
         IN  IF u1.connections.proc_actions = 0
             THEN Raise(u1, "RuntimeError")
             ELSE [u1 EXCEPT !.connections.proc_actions = Disconnected(@, one),
                             !.proc = None]

\* _pre_processing
pre_processing(u) ==
    [reset_figure_controls(u) EXCEPT !.act_enabled.pause_resume = TRUE]

on_proc_starting(u) ==
    [u EXCEPT !.act_enabled.file_load = FALSE,
              !.act_enabled.tools_cal_cam = FALSE]

start_proc_thread(u) ==
    on_proc_starting([u EXCEPT !.proc_thread = u.proc,
                               !.workers[u.proc[1]].st = "running"])

\* _load_flight: load is the outcome of VideoProcessor.load_flight
load_flight(u, load) ==
    IF load = "PermissionError"
    THEN u
    ELSE IF load # "ok"
         THEN Raise(u, load)
         ELSE start_proc_thread(pre_processing(u))

\* on_load_flight once the dialog has been answered
on_load_flight(u, accepted, load) ==
    IF accepted
    THEN load_flight([init_proc(u) EXCEPT !.last_flight = TRUE,
                                         !.loc_pts = <<>>], load)
    ELSE u

on_proc_finished(u) ==
    IF u.proc = None
    THEN Raise(u, "AttributeError")
    ELSE IF u.workers[u.proc[1]].exc
         THEN Raise(u, "Exception")
         ELSE LET u1 == [u EXCEPT !.act_enabled.file_load = TRUE,
                                  !.act_enabled.pause_resume = FALSE,
                                  !.act_enabled.tools_cal_cam = TRUE]
              IN  enable_figure_controls(reset_figure_controls(u1), FALSE)

\* self.close() sends the close event at once.
close(u) == closeEvent(u)

on_proc_thread_finished(u, one) ==
    LET u1 == deinit_proc(u, one)
    IN  IF u1.err # NoError
        THEN u1
        ELSE IF u1.is_window_closing THEN close(u1) ELSE u1

\* _deinit_proc_thread
deinit_proc_thread(u) == [u EXCEPT !.proc_thread = None]

\* _init_calibrator
init_calibrator(u) ==
    [u EXCEPT !.workers = Append(@, Worker("cal", "created")),
              !.calibrator = Some(Len(u.workers) + 1),
              !.connections.stop_proc = @ + 1]

\* _deinit_calibrator
deinit_calibrator(u, one) ==
    IF u.connections.stop_proc = 0
    THEN Raise(u, "RuntimeError")
    ELSE [u EXCEPT !.connections.stop_proc = Disconnected(@, one),
                   !.calibrator = None]

\* _pre_calibration
pre_calibration(u) ==
    LET u1 == [u EXCEPT !.act_enabled.file_load = FALSE,
                        !.act_enabled.restart_flight = FALSE,
                        !.act_enabled.tools_cal_cam = FALSE,
                        !.act_enabled.tools_place_cam = FALSE]
    IN  enable_figure_controls(reset_figure_controls(u1), FALSE)

start_cal_thread(u) ==
    [u EXCEPT !.proc_thread = u.calibrator,
              !.workers[u.calibrator[1]].st = "running"]

\* on_calibrate_cam once the dialog has been answered
on_calibrate_cam(u, accepted) ==
    IF accepted
    THEN start_cal_thread(pre_calibration(init_calibrator(u)))
    ELSE u

on_cal_thread_finished(u, one) ==
    LET u1 == deinit_calibrator(u, one)
    IN  IF u1.err # NoError
        THEN u1
        ELSE IF u1.is_window_closing THEN close(u1) ELSE u1

on_cal_finished(u) ==
    IF u.calibrator = None
    THEN Raise(u, "AttributeError")
    ELSE IF u.workers[u.calibrator[1]].exc
         THEN Raise(u, "Exception")
         ELSE LET u1 == [u EXCEPT !.act_enabled.file_load = TRUE,
                                  !.act_enabled.restart_flight = TRUE,
                                  !.act_enabled.tools_cal_cam = TRUE,
                                  !.act_enabled.tools_place_cam = TRUE]
              IN  enable_figure_controls(reset_figure_controls(u1), FALSE)

\* The user answers the innermost modal dialog.
Answered == [UI EXCEPT !.modal = SubSeq(modal, 1, Len(modal) - 1)]

TopModal == IF modal = <<>> THEN "none" ELSE modal[Len(modal)]

queuevars == <<is_window_closing, proc, proc_thread, calibrator, modal, closed,
               saved, act_enabled, connections, checked, fig_enabled,
               last_flight, is_mouse_enabled, inbox, loc_pts, op, emitted, err,
               othervars>>

\* The user triggers act_file_load: LoadFlightDialog opens.
Load ==
    /\ Idle
    /\ modal = <<>>
    /\ act_enabled.file_load
    /\ Len(workers) < MaxWorkers
    /\ Becomes([UI EXCEPT !.modal = Append(@, "load")], "on_load_flight")

\* The user accepts or rejects LoadFlightDialog.
AnswerLoad ==
    /\ Idle
    /\ TopModal = "load"
    /\ \E accepted \in BOOLEAN, load \in {"ok", "PermissionError", "Exception"} :
          Becomes(on_load_flight(Answered, accepted, load), "load_answered")

\* The user triggers act_tools_cal_cam: CameraCalibrationDialog opens.
Calibrate ==
    /\ Idle
    /\ modal = <<>>
    /\ act_enabled.tools_cal_cam
    /\ Len(workers) < MaxWorkers
    /\ Becomes([UI EXCEPT !.modal = Append(@, "cal")], "on_calibrate_cam")

AnswerCalibrate ==
    /\ Idle
    /\ TopModal = "cal"
    /\ \E accepted \in BOOLEAN :
          Becomes(on_calibrate_cam(Answered, accepted), "cal_answered")

\* The user closes the window (title bar, or act_file_exit).
RequestClose ==
    /\ Idle
    /\ modal = <<>>
    /\ Becomes(closeEvent(UI), "closeEvent")

\* The user answers "Do you want to stop it and quit?".
AnswerQuit ==
    /\ Idle
    /\ TopModal = "quit"
    /\ \E yes \in BOOLEAN :
          Becomes(closeEvent_answered(Answered, yes),
                  IF yes THEN "quit_yes" ELSE "quit_no")

\* The user triggers act_stop_proc (Esc).
StopProc ==
    /\ Idle
    /\ modal = <<>>
    /\ connections.stop_proc > 0
    /\ Becomes(on_stop_proc(UI), "on_stop_proc")

\* The run() of worker w returns, of itself or because it was asked to
\* stop: finished is emitted, which posts the slots connected to it.
WorkerFinish(w) ==
    /\ ~closed
    /\ w \in 1 .. Len(workers)
    /\ workers[w].st = "running"
    /\ \E exc \in BOOLEAN :
          workers' = [workers EXCEPT ![w].st = "done", ![w].exc = exc]
    /\ queue' = queue \o
          << Call(IF workers[w].kind = "proc" THEN "on_proc_finished"
                  ELSE "on_cal_finished", w, FALSE),
             Call("exit", w, FALSE) >>
    /\ UNCHANGED queuevars

\* The thread of worker w leaves its event loop and emits finished.
ThreadFinish(w) ==
    /\ ~closed
    /\ w \in 1 .. Len(workers)
    /\ workers[w].st = "exiting"
    /\ workers' = [workers EXCEPT ![w].st = "finished"]
    /\ queue' = queue \o
          << Call("deleteLater", w, FALSE),
             Call(IF workers[w].kind = "proc" THEN "on_proc_thread_finished"
                  ELSE "on_cal_thread_finished", w, FALSE) >>
    /\ UNCHANGED queuevars

Posted(slot) == ~closed /\ queue # <<>> /\ Head(queue).slot = slot

HandleProcFinished ==
    /\ Posted("on_proc_finished")
    /\ Becomes(on_proc_finished(Taken), "on_proc_finished")

HandleCalFinished ==
    /\ Posted("on_cal_finished")
    /\ Becomes(on_cal_finished(Taken), "on_cal_finished")

\* _proc_thread.exit
HandleExit ==
    /\ Posted("exit")
    /\ Becomes([Taken EXCEPT !.workers[Head(queue).w].st = "exiting"], "exit")

\* _proc_thread.deleteLater: the deletion is posted
HandleDeleteLater ==
    /\ Posted("deleteLater")
    /\ Becomes([Taken EXCEPT !.queue =
                    Append(@, Call("DeferredDelete", Head(queue).w, FALSE))],
               "deleteLater")

HandleProcThreadFinished ==
    /\ Posted("on_proc_thread_finished")
    /\ \E one \in BOOLEAN :
          Becomes(on_proc_thread_finished(Taken, one), "on_proc_thread_finished")

HandleCalThreadFinished ==
    /\ Posted("on_cal_thread_finished")
    /\ \E one \in BOOLEAN :
          Becomes(on_cal_thread_finished(Taken, one), "on_cal_thread_finished")

\* The thread object is deleted; its destroyed signal calls
\* _deinit_proc_thread.
HandleDeferredDelete ==
    /\ Posted("DeferredDelete")
    /\ Becomes(deinit_proc_thread(
                   [Taken EXCEPT !.workers[Head(queue).w].st = "destroyed"]),
               "_deinit_proc_thread")

\* The main window after MainWindow.__init__.
InitWindow ==
    /\ is_window_closing = FALSE
    /\ proc = None
    /\ proc_thread = None
    /\ calibrator = None
    /\ workers = <<>>
    /\ queue = <<>>
    /\ modal = <<>>
    /\ closed = FALSE
    /\ saved = 0
    /\ act_enabled = [file_load |-> TRUE, tools_cal_cam |-> TRUE,
                      restart_flight |-> TRUE, tools_place_cam |-> TRUE,
                      pause_resume |-> FALSE, next_figure |-> FALSE]
    /\ connections = [stop_proc |-> 0, proc_actions |-> 0, state_changed |-> 0]
    /\ checked = [i \in 1 .. Len(fig_chk_boxes) |-> FALSE]
    /\ fig_enabled = FALSE
    /\ last_flight = FALSE
    /\ is_mouse_enabled = FALSE
    /\ inbox = <<>>
    /\ audio = <<>>
    /\ op = "init"
    /\ emitted = <<>>
    /\ err = NoError
    /\ loc_pts = <<>>
    /\ prev_pts = <<>>
    /\ pc = "window"
    /\ args = NoArgs
    /\ f1 = None
    /\ f2 = None
    /\ dargs = <<>>
    /\ dout = <<>>

\* Figure checkboxes the user clicks while threads come and go.
WindowFigs == {Len(fig_chk_boxes)}

NextWindow ==
    \/ Load
    \/ AnswerLoad
    \/ Calibrate
    \/ AnswerCalibrate
    \/ RequestClose
    \/ AnswerQuit
    \/ StopProc
    \/ \E i \in WindowFigs : ToggleFigure(i)
    \/ EmitArGeometryAvailable
    \/ HandleArGeometryAvailable
    \/ \E w \in 1 .. MaxWorkers : WorkerFinish(w)
    \/ \E w \in 1 .. MaxWorkers : ThreadFinish(w)
    \/ HandleProcFinished
    \/ HandleCalFinished
    \/ HandleExit
    \/ HandleDeleteLater
    \/ HandleProcThreadFinished
    \/ HandleCalThreadFinished
    \/ HandleDeferredDelete

SpecWindow == InitWindow /\ [][NextWindow]_vars

\* ------------------------------------------------------------------------
\* Claims on the threads and the closing of the window
\* ------------------------------------------------------------------------
RunningWorkers == {w \in 1 .. Len(workers) : isRunning(UI, w)}

\* C23: the main window never accepts a close event while a worker thread
\* (video processor or calibrator) is running, and the window settings are
\* saved only when a close event is accepted.
C23_NoCloseWhileRunning ==
    /\ closed => RunningWorkers = {}
    /\ saved = (IF closed THEN 1 ELSE 0)

\* The closing of the window with the figure panel and the Esc key left
\* alone.
NextQuit ==
    \/ Load
    \/ AnswerLoad
    \/ Calibrate
    \/ AnswerCalibrate
    \/ RequestClose
    \/ AnswerQuit
    \/ \E w \in 1 .. MaxWorkers : WorkerFinish(w)
    \/ \E w \in 1 .. MaxWorkers : ThreadFinish(w)
    \/ HandleProcFinished
    \/ HandleCalFinished
    \/ HandleExit
    \/ HandleDeleteLater
    \/ HandleProcThreadFinished
    \/ HandleCalThreadFinished
    \/ HandleDeferredDelete

\* The UI thread handles every posted slot call, a thread that was told to
\* exit does, and a worker that was asked to stop returns from run().
\* Nothing is assumed of the user.
FairQuit ==
    /\ WF_vars(HandleProcFinished)
    /\ WF_vars(HandleCalFinished)
    /\ WF_vars(HandleExit)
    /\ WF_vars(HandleDeleteLater)
    /\ WF_vars(HandleProcThreadFinished)
    /\ WF_vars(HandleCalThreadFinished)
    /\ WF_vars(HandleDeferredDelete)
    /\ \A w \in 1 .. MaxWorkers :
          /\ WF_vars(ThreadFinish(w))
          /\ WF_vars(w \in 1 .. Len(workers) /\ workers[w].stop /\ WorkerFinish(w))

SpecQuit == InitWindow /\ [][NextQuit]_vars /\ FairQuit

\* the user has just answered Yes / No to the warning box
QuitConfirmed == op = "quit_yes"

QuitDeclined == op = "quit_no"

StopRequested ==
    /\ emitted = << [sig |-> "stop_processor"] >>
    /\ \A w \in RunningWorkers : workers[w].st = "running" => workers[w].stop

ThreadFinishedStep ==
    op' \in {"on_proc_thread_finished", "on_cal_thread_finished"}

\* C25: once the user confirms quitting while processing is running, a stop
\* request is sent and the window eventually closes (the worker honours the
\* stop request); if the user declines, the closing flag is reset and a
\* later thread finish does not close the window.
C25_QuitConfirmedCloses ==
    /\ [](QuitConfirmed => StopRequested)
    /\ QuitConfirmed ~> closed
    /\ [](QuitDeclined => ~is_window_closing)
    /\ [][(ThreadFinishedStep /\ ~is_window_closing) => ~closed']_vars

\* C26: after any number of flights loaded and finished in one session,
\* every UI-thread signal connected in _init_proc is connected to its
\* handler at most once, so one toggle of a figure checkbox emits
\* figure_state_changed exactly once.
C26_ConnectedAtMostOnce ==
    /\ connections.stop_proc <= 1
    /\ connections.proc_actions <= 1
    /\ connections.state_changed <= 1
    /\ (op = "toggle" /\ connections.state_changed > 0) => Len(emitted) = 1

\* C29: while a video processor thread exists (from on_proc_starting until
\* the thread has finished and the processor has been deinitialized), the
\* Load-flight and Calibrate-camera actions are disabled.
C29_LoadDisabledWhileProcessing ==
    (\E w \in 1 .. Len(workers) :
        /\ workers[w].kind = "proc"
        /\ workers[w].st \in {"running", "done", "exiting"})
    => (~act_enabled.file_load /\ ~act_enabled.tools_cal_cam)

\* C30: at most one worker thread is running at any time, and whenever one
\* is running _proc_thread refers to it; the teardown of an earlier thread
\* never clears the reference to, or disconnects the handlers of, a newer
\* running worker.
C30_OneWorkerReferenced ==
    /\ Cardinality(RunningWorkers) <= 1
    /\ \A w \in RunningWorkers :
          /\ proc_thread = Some(w)
          /\ workers[w].st = "running" =>
                /\ connections.stop_proc >= 1
                /\ (IF workers[w].kind = "proc" THEN proc ELSE calibrator) = Some(w)

\* C31: whenever the video processor emits finished, for every return code
\* and also when the processor reports a captured exception, on_proc_finished
\* leaves the Load-flight and Calibrate-camera actions enabled and the
\* pause/resume action and the figure controls disabled.
C31_FinishedReenablesLoad ==
    op = "on_proc_finished" =>
        /\ act_enabled.file_load
        /\ act_enabled.tools_cal_cam
        /\ ~act_enabled.pause_resume
        /\ ~fig_enabled

\* ------------------------------------------------------------------------
\* MainWindow: the camera locating procedure
\* ------------------------------------------------------------------------
\* Number of slot calls waiting in the event queue of the processor thread.
MaxInbox == 2

\* The video window while it displays a 2 x 2 frame at its own size.
LocatingWindow(enabled) ==
    update_frame(VideoWindow_init(Size(2, 2), enabled), Size(2, 2))

\* A signal of the UI thread that _init_proc connected to a slot of the
\* processor is emitted: the call is posted to every processor whose run()
\* is executing.
Send(u, sig, arg) ==
    LET live == {w \in 1 .. Len(u.workers) :
                    /\ u.workers[w].kind = "proc"
                    /\ u.workers[w].st = "running"}
        Calls[n \in 0 .. Len(u.workers)] ==
            IF n = 0 THEN <<>>
            ELSE IF n \in live THEN Append(Calls[n - 1], Call(sig, n, arg))
            ELSE Calls[n - 1]
    IN  [u EXCEPT !.inbox = @ \o Calls[Len(u.workers)]]

\* A click on the video window: what mousePressEvent emits is posted to
\* add_locator_point or pop_locator_point of the processor.
clicked(u, button, pos) ==
    LET res == mousePressEvent(LocatingWindow(u.is_mouse_enabled), button, pos)
        u1 == [u EXCEPT !.emitted = res.emitted]
    IN  IF res.emitted = <<>>
        THEN u1
        ELSE Send(u1, res.emitted[1].sig, res.emitted[1].pt)

on_locating_started(u) ==
    [u EXCEPT !.is_mouse_enabled = TRUE, !.act_enabled.pause_resume = FALSE]

\* on_loc_pts_defined up to the answer of the user to the message box; the
\* rest of the handler is on_loc_pts_defined_answered.
on_loc_pts_defined(u) == [u EXCEPT !.modal = Append(@, "confirm")]

\* _pre_processing reads self._proc.flight
on_loc_pts_defined_answered(u, yes) ==
    IF yes
    THEN LET u1 == [u EXCEPT !.is_mouse_enabled = FALSE]
             u2 == Send(Emit(u1, [sig |-> "locating_completed"]),
                        "stop_locating", <<>>)
         IN  IF u2.proc = None
             THEN Raise(u2, "AttributeError")
             ELSE pre_processing(u2)
    ELSE [u EXCEPT !.loc_pts = clear_locator_points(@).loc_pts]

\* The user clicks a mouse button on the video window.
Click ==
    /\ Idle
    /\ modal = <<>>
    /\ Len(inbox) < MaxInbox
    /\ \E button \in {"LeftButton", "RightButton"} :
          Becomes(clicked(UI, button, <<0, 0>>), "mousePressEvent")

\* The user answers "Proceed with processing?".
AnswerConfirm ==
    /\ Idle
    /\ TopModal = "confirm"
    /\ \E yes \in BOOLEAN :
          Becomes(on_loc_pts_defined_answered(Answered, yes),
                  IF yes THEN "confirm_yes" ELSE "confirm_no")

HandleLocatingStarted ==
    /\ Posted("on_locating_started")
    /\ Becomes(on_locating_started(Taken), "on_locating_started")

HandleLocPtsDefined ==
    /\ Posted("on_loc_pts_defined")
    /\ Becomes(on_loc_pts_defined(Taken), "on_loc_pts_defined")

procvars == <<is_window_closing, proc, proc_thread, calibrator, modal, closed,
              saved, act_enabled, connections, checked, fig_enabled,
              last_flight, is_mouse_enabled, op, emitted, err, othervars>>

\* The running video processor w begins to locate the camera and emits
\* locating_started.
WorkerLocate(w) ==
    /\ ~closed
    /\ w \in 1 .. Len(workers)
    /\ workers[w].kind = "proc"
    /\ workers[w].st = "running"
    /\ workers[w].loc = "idle"
    /\ workers' = [workers EXCEPT ![w].loc = "locating"]
    /\ queue' = Append(queue, Call("on_locating_started", w, FALSE))
    /\ UNCHANGED <<procvars, inbox, loc_pts>>

\* The calls of on_loc_pts_defined that the signals in evs post.
DefinedCalls(evs, w) ==
    [i \in 1 .. Len(SelectSeq(evs, LAMBDA ev : ev = locator_points_defined)) |->
        Call("on_loc_pts_defined", w, FALSE)]

\* The thread of a processor takes the oldest call posted to it: the
\* processor hands add_locator_point and pop_locator_point on to its flight
\* and relays the flight's locator_points_defined; stop_locating ends the
\* locating. A call to a processor whose run() has returned is dropped.
Deliver ==
    /\ ~closed
    /\ inbox # <<>>
    /\ LET call == Head(inbox)
           runs == workers[call.w].st = "running"
           r == IF ~runs \/ call.slot = "stop_locating"
                THEN [loc_pts |-> loc_pts, emitted |-> <<>>]
                ELSE IF call.slot = "point_added"
                THEN add_locator_point(loc_pts, call.arg)
                ELSE pop_locator_point(loc_pts)
       IN  /\ inbox' = Tail(inbox)
           /\ loc_pts' = r.loc_pts
           /\ queue' = queue \o DefinedCalls(r.emitted, call.w)
           /\ workers' = IF runs /\ call.slot = "stop_locating"
                         THEN [workers EXCEPT ![call.w].loc = "located"]
                         ELSE workers
    /\ UNCHANGED procvars

NextLocating ==
    \/ Load
    \/ AnswerLoad
    \/ StopProc
    \/ Click
    \/ AnswerConfirm
    \/ \E w \in 1 .. MaxWorkers : WorkerLocate(w)
    \/ Deliver
    \/ \E w \in 1 .. MaxWorkers : WorkerFinish(w)
    \/ \E w \in 1 .. MaxWorkers : ThreadFinish(w)
    \/ HandleLocatingStarted
    \/ HandleLocPtsDefined
    \/ HandleProcFinished
    \/ HandleExit
    \/ HandleDeleteLater
    \/ HandleProcThreadFinished
    \/ HandleDeferredDelete

SpecLocating == InitWindow /\ [][NextLocating]_vars

\* Processor w is locating the camera and the UI thread has not yet been
\* told that it finished.
Locating(w) ==
    /\ workers[w].kind = "proc"
    /\ workers[w].loc = "locating"
    /\ workers[w].st \in {"running", "done"}

\* C34: the mouse reactions of the video window are enabled only while a
\* locating procedure is in progress: is_mouse_enabled is true once
\* locating_started is handled, false once the user has confirmed the
\* points, and false once processing was stopped or has finished, also when
\* it was cancelled in the middle of locating.
C34_MouseOnlyWhileLocating ==
    /\ op = "on_locating_started" => is_mouse_enabled
    /\ op = "confirm_yes" => ~is_mouse_enabled
    /\ is_mouse_enabled => \E w \in 1 .. Len(workers) : Locating(w)

\* Number of calls of on_loc_pts_defined waiting in q.
Defined(q) == Len(SelectSeq(q, LAMBDA c : c.slot = "on_loc_pts_defined"))

\* C35: the user is asked to confirm only when the set of locator points
\* has just become full, once each time; on Yes locating_completed is
\* emitted exactly once and the mouse reactions are disabled; on No the
\* locator points of the flight are cleared and locating_completed is not
\* emitted.
C35_OneConfirmationPerFullSet ==
    /\ [][Defined(queue') > Defined(queue) =>
            /\ Defined(queue') = Defined(queue) + 1
            /\ Len(loc_pts) < num_obj_pts
            /\ Len(loc_pts') = num_obj_pts]_vars
    /\ [](op = "confirm_yes" =>
            /\ emitted = << [sig |-> "locating_completed"] >>
            /\ ~is_mouse_enabled)
    /\ [][(op' = "confirm_no" /\ Len(modal') < Len(modal)) =>
            (loc_pts' = <<>> /\ emitted' = <<>>)]_vars

\* ------------------------------------------------------------------------
\* MainWindow: restarting the flight
\* ------------------------------------------------------------------------
\* on_restart_flight from the end of the wait loop on: load is the outcome
\* of Flight.restart and VideoProcessor.load_flight.
on_restart_flight_waited(u, load) == load_flight(init_proc(u), load)

\* on_restart_flight up to its wait loop, and all of it when the loop is
\* not entered: a "wait" on the stack of modal says that the handler is in
\* the loop, calling processEvents(), which handles posted slot calls and
\* the input of the user.
on_restart_flight(u, load) ==
    IF ~u.last_flight
    THEN u
    ELSE LET u1 == on_stop_proc(u)
         IN  IF u1.proc_thread = None
             THEN on_restart_flight_waited(u1, load)
             ELSE [u1 EXCEPT !.modal = Append(@, "wait")]

Waits == Len(SelectSeq(modal, LAMBDA d : d = "wait"))

\* Number of flights restarted in a session.
MaxRestarts == 2

\* Largest number of workers that loading and restarting create.
MaxThreads == MaxWorkers + MaxRestarts

\* The user triggers act_restart_flight, also from inside a wait loop.
RestartFlight ==
    /\ Idle
    /\ TopModal = "none" \/ (TopModal = "wait" /\ proc_thread # None)
    /\ act_enabled.restart_flight
    /\ Len(workers) + Waits < MaxThreads
    /\ \E load \in {"ok", "PermissionError", "Exception"} :
          Becomes(on_restart_flight(UI, load), "on_restart_flight")

\* while self._proc_thread is not None: the innermost wait loop ends.
RestartWaited ==
    /\ ~closed
    /\ TopModal = "wait"
    /\ proc_thread = None
    /\ \E load \in {"ok", "PermissionError", "Exception"} :
          Becomes(on_restart_flight_waited(Answered, load), "restarted")

NextRestart ==
    \/ Load
    \/ AnswerLoad
    \/ RestartFlight
    \/ RestartWaited
    \/ \E w \in 1 .. MaxThreads : WorkerFinish(w)
    \/ \E w \in 1 .. MaxThreads : ThreadFinish(w)
    \/ HandleProcFinished
    \/ HandleExit
    \/ HandleDeleteLater
    \/ HandleProcThreadFinished
    \/ HandleDeferredDelete

\* The UI thread handles every posted slot call and leaves a wait loop
\* whose condition is false, a thread that was told to exit does, and a
\* worker that was asked to stop returns from run(). Nothing is assumed of
\* the user.
FairRestart ==
    /\ WF_vars(RestartWaited)
    /\ WF_vars(HandleProcFinished)
    /\ WF_vars(HandleExit)
    /\ WF_vars(HandleDeleteLater)
    /\ WF_vars(HandleProcThreadFinished)
    /\ WF_vars(HandleDeferredDelete)
    /\ \A w \in 1 .. MaxThreads :
          /\ WF_vars(ThreadFinish(w))
          /\ WF_vars(w \in 1 .. Len(workers) /\ workers[w].stop /\ WorkerFinish(w))

SpecRestart == InitWindow /\ [][NextRestart]_vars /\ FairRestart

\* on_restart_flight has just been entered
RestartStep == op' = "on_restart_flight" /\ queue' = queue

\* on_restart_flight has just created a processor
RestartedStep ==
    /\ op' \in {"on_restart_flight", "restarted"}
    /\ queue' = queue
    /\ Len(workers') > Len(workers)

\* C32: on_restart_flight does nothing when no flight has been loaded;
\* otherwise it requests a stop and waits until the reference to the
\* previous worker thread is cleared, and only then creates the new
\* processor and starts the new thread, so that no other worker thread is
\* running when it does; the wait loops end, given that a worker that is
\* asked to stop does.
C32_RestartWaitsForThread ==
    /\ [][(RestartStep /\ ~last_flight) =>
            /\ workers' = workers /\ modal' = modal /\ emitted' = <<>>
            /\ proc' = proc /\ proc_thread' = proc_thread]_vars
    /\ [][(RestartStep /\ last_flight /\ proc_thread # None) =>
            /\ emitted' = << [sig |-> "stop_processor"] >>
            /\ modal' = Append(modal, "wait")
            /\ Len(workers') = Len(workers)]_vars
    /\ [][RestartedStep =>
            /\ proc_thread = None
            /\ RunningWorkers = {}
            /\ Len(workers') = Len(workers) + 1]_vars
    /\ (Waits > 0) ~> (Waits = 0)

====
